---- MODULE Spec2Model ----
(***************************************************************************)
(* Model of openstack_dashboard/api/nova.py: the nova facade of the        *)
(* dashboard.  Modelled here: security-group reconciliation                *)
(* (SecurityGroupManager.update_instance_security_group), server_list      *)
(* pagination, tenant_absolute_limits sign correction and the memoized     *)
(* novaclient(request) handle.                                             *)
(***************************************************************************)
EXTENDS Integers, Sequences, FiniteSets, TLC

\* ------------------------------------------------------------------------
\* Bounds of the model
\* ------------------------------------------------------------------------
NumGroups == 3

MaxPageSize == 3

MaxRows == 4

MaxResultLimit == 4

MaxLimits == 3

MaxAbsValue == 2

MaxRequests == 2

MaxCallsPerRequest == 3

MaxHypervisors == 2

MaxServersPerHypervisor == 2

MaxItems == 2

MaxExtraClasses == 2

MaxFlavors == 2

MaxMetadataKeys == 2

NumTabs == 2

MaxFields == 2

\* ------------------------------------------------------------------------
\* Values
\* ------------------------------------------------------------------------
GroupNameTable == <<"sg-A", "sg-B", "sg-C", "sg-D", "sg-E">>

GroupIdTable == <<"id-1", "id-2", "id-3", "id-4", "id-5">>

\* the security groups of the tenant, as the remote service knows them
SecGroups == { [id |-> GroupIdTable[i], name |-> GroupNameTable[i]] : i \in 1..NumGroups }

GroupNames == { g.name : g \in SecGroups }

GroupIds == { g.id : g \in SecGroups }

\* an id the caller may ask for that no group of the tenant has
UnknownGroupId == "id-none"

InstanceId == "inst-1"

TenantId == "tenant-1"

\* errors the client library can raise from a remote call
ErrKinds == {"ClientException", "OtherError"}

ErrCodes == {404, 500}

ErrTexts == {"remote: sg-A of tenant-1 rejected"}

RemoteErrors == [kind : ErrKinds, code : ErrCodes, text : ErrTexts]

NoCode == 0

NoError == [kind |-> "none", code |-> NoCode, text |-> ""]

NoRaise == [kind |-> "none", code |-> NoCode, msg |-> <<>>, fresh |-> FALSE]

DecimalTable == <<"0", "1", "2", "3", "4", "5", "6", "7", "8", "9">>

\* "%d" % n
NumStr(n) == DecimalTable[n + 1]

\* template % arg : the placeholder of the template is replaced by the text of arg
Format(template, arg) ==
    [i \in 1..Len(template) |->
        IF template[i] \in {"%s", "%d"} THEN arg ELSE template[i]]

MsgListFailed == <<"Couldn't get security group list.">>

MsgListByInstanceFailed == <<"Couldn't get current security group list for instance ", "%s", ".">>

MsgModifyFailed == <<"Failed to modify ", "%d", " instance security groups">>

VARIABLES
    server_groups,            \* remote: names of the groups the instance is in
    sg_pc,                    \* position inside update_instance_security_group
    new_security_group_ids,   \* argument of the running call
    wanted_groups,
    current_group_names,
    groups_to_add,
    groups_to_remove,
    add_iter,                 \* groups the first for loop has not visited yet
    remove_iter,              \* groups the second for loop has not visited yet
    num_groups_to_modify,
    sg_calls,                 \* add/remove calls issued to the remote, in order
    sg_err,                   \* the error the remote raised, if any
    sg_failed_at,             \* the call that raised it
    sg_raised,                \* the error surfaced to the caller
    sg_returned,              \* the value returned to the caller
    sl_pc,                    \* position of the caller of server_list
    sl_call,                  \* arguments and settings of the last server_list call
    sl_remote,                \* what was sent to and returned by servers.list
    sl_result,                \* what server_list returned
    lim_pc,                   \* position of the caller of tenant_absolute_limits
    lim_remote,               \* the absolute limits the remote service returned
    lim_result,               \* what tenant_absolute_limits returned
    req_state,                \* request contexts: "unborn", "live" or "ended"
    req_user,                 \* request.user of each request context
    nc_pc,                    \* position of each context's thread inside novaclient(request)
    nc_local,                 \* the client a context's thread has just constructed
    nc_cache,                 \* the cache of the memoized novaclient, keyed by request
    clients,                  \* every nova_client.Client constructed so far
    nc_log,                   \* the 'novaclient connection created' log entries
    nc_returned,              \* the handles novaclient(request) has returned, per context
    nc_calls,                 \* number of novaclient(request) calls made, per context
    ev_pc,                    \* position inside evacuate_host
    ev_hypervisors,           \* what hypervisors.search(host, True) returned
    ev_todo,                  \* servers the two for loops have not reached yet
    response,                 \* evacuate_host: messages of the failed servers
    err_code,                 \* evacuate_host: code of the last ClientException
    ev_attempts,              \* servers.evacuate calls made, in order
    ev_result,                \* what evacuate_host returned or raised
    fo_pc,                    \* position inside the running facade operation
    fo_op,                    \* the facade operation that was called
    fo_arg,                   \* its arguments and the size of the remote listing
    fo_todo,                  \* client-library calls the operation has still to make
    fo_calls,                 \* client-library calls made, in order
    fo_err,                   \* the error a client-library call raised, if any
    fo_result,                \* what the operation returned or raised
    FORM_FIELDS_TYPES,        \* FieldFactory.FORM_FIELDS_TYPES
    class_bases,              \* the classes defined so far, with their direct bases
    statements_run,           \* class statements of regions/forms.py executed so far
    rest_pc,                  \* position of the REST server-create handler
    rest_body,                \* the parsed body of the request being handled
    rest_response,            \* the response of the handler, NoResponse before it answers
    rest_calls,               \* the server_create calls made for the request
    fl_pc,                    \* position inside flavor_create
    fl_metadata,              \* the metadata argument of flavor_create
    fl_flavor,                \* the local variable flavor (id of the created flavor)
    fl_before,                \* the flavor ids nova held when flavor_create was called
    fl_calls,                 \* the client-library calls of this invocation
    fl_result,                \* what flavor_create returned or raised
    remote_flavors,           \* nova: flavor id -> extra specs
    mf_pc,                    \* position inside FieldFactory.make_form_field
    mf_elem,                  \* src_elem: the locators that match inside it
    mf_todo,                  \* registered classes the loop has not probed yet
    mf_result,                \* what make_form_field returned or raised
    fr_pc,                    \* position inside a read of the form fields
    fr_name,                  \* the field name read of a tabbed form, NoName for FormRegion.fields
    fr_tab_index,             \* tab_index of the GetFieldsMethod called, NoTab for FormRegion.fields
    current_tab,              \* the tab the page shows
    implicit_wait,            \* TRUE when the driver's implicit wait is on
    fields_els,               \* the elements found with _fields_locator
    form_fields,              \* the local list form_fields
    fr_pending,               \* the exception on its way through the finally clause
    fr_log,                   \* what the read has done so far, in order
    fr_result                 \* what the read returned or raised

sgvars == <<server_groups, sg_pc, new_security_group_ids, wanted_groups,
            current_group_names, groups_to_add, groups_to_remove, add_iter,
            remove_iter, num_groups_to_modify, sg_calls, sg_err, sg_failed_at,
            sg_raised, sg_returned>>

slvars == <<sl_pc, sl_call, sl_remote, sl_result>>

limvars == <<lim_pc, lim_remote, lim_result>>

ncvars == <<req_state, req_user, nc_pc, nc_local, nc_cache, clients, nc_log,
            nc_returned, nc_calls>>

evvars == <<ev_pc, ev_hypervisors, ev_todo, response, err_code, ev_attempts, ev_result>>

fovars == <<fo_pc, fo_op, fo_arg, fo_todo, fo_calls, fo_err, fo_result>>

formvars == <<FORM_FIELDS_TYPES, class_bases, statements_run>>

restvars == <<rest_pc, rest_body, rest_response, rest_calls>>

flvars == <<fl_pc, fl_metadata, fl_flavor, fl_before, fl_calls, fl_result, remote_flavors>>

ffvars == <<mf_pc, mf_elem, mf_todo, mf_result>>

frvars == <<fr_pc, fr_name, fr_tab_index, current_tab, implicit_wait, fields_els, form_fields,
            fr_pending, fr_log, fr_result>>

vars == <<sgvars, slvars, limvars, ncvars, evvars, fovars, formvars, restvars, flvars, ffvars, frvars>>

\* ------------------------------------------------------------------------
\* SecurityGroupManager.update_instance_security_group
\* ------------------------------------------------------------------------
SgLocalsIdle ==
    /\ sg_pc = "idle"
    /\ new_security_group_ids = {}
    /\ wanted_groups = {}
    /\ current_group_names = {}
    /\ groups_to_add = {}
    /\ groups_to_remove = {}
    /\ add_iter = {}
    /\ remove_iter = {}
    /\ num_groups_to_modify = 0
    /\ sg_calls = <<>>
    /\ sg_err = NoError
    /\ sg_failed_at = "none"
    /\ sg_raised = NoRaise
    /\ sg_returned = FALSE

InitSG ==
    /\ server_groups \in SUBSET GroupNames
    /\ SgLocalsIdle

\* wanted_groups = set([sg.name for sg in all_groups if sg.id in new_security_group_ids])
WantedGroups(all_groups, ids) == { sg.name : sg \in { g \in all_groups : g.id \in ids } }

\* the difference with the current groups forgotten
GroupsToAdd_NoDifference(wanted, current) == wanted

GroupsToAdd(wanted, current) == wanted \ current

GroupsToRemove(wanted, current) == current \ wanted

\* the removals left out of the count
NumGroupsToModify_AddsOnly(to_add, to_remove) == Cardinality(to_add)

NumGroupsToModify(to_add, to_remove) == Cardinality(to_add \cup to_remove)

\* raise Exception(...): a new error of the generic kind, without a code
GenericException(msg) ==
    [kind |-> "Exception", code |-> NoCode, msg |-> msg, fresh |-> TRUE]

\* the text of the remote error passed on in the new error
SanitizedClientException_RawText(err, n) ==
    [kind |-> "ClientException", code |-> err.code,
     msg |-> <<"Failed to modify ", NumStr(n), " instance security groups: ", err.text>>,
     fresh |-> TRUE]

\* raise nova_exceptions.ClientException(err.code, "Failed to modify %d ..." % n)
SanitizedClientException(err, n) ==
    [kind |-> "ClientException", code |-> err.code,
     msg |-> Format(MsgModifyFailed, NumStr(n)), fresh |-> TRUE]

\* an error no except clause catches reaches the caller as it is
Propagated(err) ==
    [kind |-> err.kind, code |-> err.code, msg |-> <<err.text>>, fresh |-> FALSE]

\* the caller invokes the operation
update_instance_security_group ==
    /\ UNCHANGED <<slvars, limvars, ncvars, evvars, fovars, formvars, restvars, flvars, ffvars, frvars>>
    /\ sg_pc = "idle"
    /\ \E ids \in SUBSET (GroupIds \cup {UnknownGroupId}) :
          new_security_group_ids' = ids
    /\ sg_pc' = "list"
    /\ UNCHANGED <<server_groups, wanted_groups, current_group_names,
                   groups_to_add, groups_to_remove, add_iter, remove_iter,
                   num_groups_to_modify, sg_calls, sg_err, sg_failed_at,
                   sg_raised, sg_returned>>

\* all_groups = self.list()   (try / except Exception)
sg_list ==
    /\ UNCHANGED <<slvars, limvars, ncvars, evvars, fovars, formvars, restvars, flvars, ffvars, frvars>>
    /\ sg_pc = "list"
    /\ \/ /\ wanted_groups' = WantedGroups(SecGroups, new_security_group_ids)
          /\ sg_pc' = "list_by_instance"
          /\ UNCHANGED <<sg_err, sg_failed_at, sg_raised>>
       \/ \E err \in RemoteErrors :
          /\ sg_err' = err
          /\ sg_failed_at' = "list"
          /\ sg_raised' = GenericException(MsgListFailed)
          /\ sg_pc' = "raised"
          /\ UNCHANGED wanted_groups
    /\ UNCHANGED <<server_groups, new_security_group_ids, current_group_names,
                   groups_to_add, groups_to_remove, add_iter, remove_iter,
                   num_groups_to_modify, sg_calls, sg_returned>>

\* current_groups = self.list_by_instance(instance_id)   (try / except Exception)
\* followed by the two set differences and the count
sg_list_by_instance ==
    /\ UNCHANGED <<slvars, limvars, ncvars, evvars, fovars, formvars, restvars, flvars, ffvars, frvars>>
    /\ sg_pc = "list_by_instance"
    /\ \/ /\ current_group_names' = server_groups
          /\ groups_to_add' = GroupsToAdd(wanted_groups, server_groups)
          /\ groups_to_remove' = GroupsToRemove(wanted_groups, server_groups)
          /\ add_iter' = groups_to_add'
          /\ remove_iter' = groups_to_remove'
          /\ num_groups_to_modify' = NumGroupsToModify(groups_to_add', groups_to_remove')
          /\ sg_pc' = "add"
          /\ UNCHANGED <<sg_err, sg_failed_at, sg_raised>>
       \/ \E err \in RemoteErrors :
          /\ sg_err' = err
          /\ sg_failed_at' = "list_by_instance"
          /\ sg_raised' = GenericException(Format(MsgListByInstanceFailed, InstanceId))
          /\ sg_pc' = "raised"
          /\ UNCHANGED <<current_group_names, groups_to_add, groups_to_remove,
                         add_iter, remove_iter, num_groups_to_modify>>
    /\ UNCHANGED <<server_groups, new_security_group_ids, wanted_groups,
                   sg_calls, sg_returned>>

\* the error swallowed and the loop carried on
SgModifyFailed_Continue(op, group, err) ==
    /\ sg_calls' = Append(sg_calls, [op |-> op, group |-> group, ok |-> FALSE])
    /\ sg_err' = err
    /\ sg_failed_at' = op
    /\ sg_raised' = sg_raised
    /\ sg_pc' = sg_pc
    /\ add_iter' = add_iter \ {group}
    /\ remove_iter' = remove_iter \ {group}
    /\ UNCHANGED <<server_groups, num_groups_to_modify>>

\* what the try block does when a remote call raises err
SgModifyFailed(op, group, err) ==
    /\ sg_calls' = Append(sg_calls, [op |-> op, group |-> group, ok |-> FALSE])
    /\ sg_err' = err
    /\ sg_failed_at' = op
    /\ sg_raised' = IF err.kind = "ClientException"
                    THEN SanitizedClientException(err, num_groups_to_modify)
                    ELSE Propagated(err)
    /\ sg_pc' = "raised"
    /\ UNCHANGED <<server_groups, num_groups_to_modify, add_iter, remove_iter>>

\* for group in groups_to_add: add_security_group(instance_id, group); count -= 1
sg_add ==
    /\ UNCHANGED <<slvars, limvars, ncvars, evvars, fovars, formvars, restvars, flvars, ffvars, frvars>>
    /\ sg_pc = "add"
    /\ add_iter # {}
    /\ \E group \in add_iter :
          \/ /\ server_groups' = server_groups \cup {group}
             /\ sg_calls' = Append(sg_calls, [op |-> "add", group |-> group, ok |-> TRUE])
             /\ num_groups_to_modify' = num_groups_to_modify - 1
             /\ add_iter' = add_iter \ {group}
             /\ UNCHANGED <<sg_pc, sg_err, sg_failed_at, sg_raised, remove_iter>>
          \/ \E err \in RemoteErrors : SgModifyFailed("add", group, err)
    /\ UNCHANGED <<new_security_group_ids, wanted_groups, current_group_names,
                   groups_to_add, groups_to_remove, sg_returned>>

\* the removal loop not waiting for the addition loop
sg_remove_early ==
    /\ UNCHANGED <<slvars, limvars, ncvars, evvars, fovars, formvars, restvars, flvars, ffvars, frvars>>
    /\ sg_pc = "add"
    /\ remove_iter # {}
    /\ \E group \in remove_iter :
          /\ server_groups' = server_groups \ {group}
          /\ sg_calls' = Append(sg_calls, [op |-> "remove", group |-> group, ok |-> TRUE])
          /\ num_groups_to_modify' = num_groups_to_modify - 1
          /\ remove_iter' = remove_iter \ {group}
          /\ UNCHANGED <<sg_pc, sg_err, sg_failed_at, sg_raised, add_iter>>
    /\ UNCHANGED <<new_security_group_ids, wanted_groups, current_group_names,
                   groups_to_add, groups_to_remove, sg_returned>>

\* for group in groups_to_remove: remove_security_group(instance_id, group); count -= 1
sg_remove ==
    /\ UNCHANGED <<slvars, limvars, ncvars, evvars, fovars, formvars, restvars, flvars, ffvars, frvars>>
    /\ sg_pc = "add"
    /\ add_iter = {}
    /\ remove_iter # {}
    /\ \E group \in remove_iter :
          \/ /\ server_groups' = server_groups \ {group}
             /\ sg_calls' = Append(sg_calls, [op |-> "remove", group |-> group, ok |-> TRUE])
             /\ num_groups_to_modify' = num_groups_to_modify - 1
             /\ remove_iter' = remove_iter \ {group}
             /\ UNCHANGED <<sg_pc, sg_err, sg_failed_at, sg_raised, add_iter>>
          \/ \E err \in RemoteErrors : SgModifyFailed("remove", group, err)
    /\ UNCHANGED <<new_security_group_ids, wanted_groups, current_group_names,
                   groups_to_add, groups_to_remove, sg_returned>>

\* return True
sg_return ==
    /\ UNCHANGED <<slvars, limvars, ncvars, evvars, fovars, formvars, restvars, flvars, ffvars, frvars>>
    /\ sg_pc = "add"
    /\ add_iter = {}
    /\ remove_iter = {}
    /\ sg_pc' = "returned"
    /\ sg_returned' = TRUE
    /\ UNCHANGED <<server_groups, new_security_group_ids, wanted_groups,
                   current_group_names, groups_to_add, groups_to_remove,
                   add_iter, remove_iter, num_groups_to_modify, sg_calls,
                   sg_err, sg_failed_at, sg_raised>>

\* the caller has the result; the locals of the call are gone
sg_done ==
    /\ UNCHANGED <<slvars, limvars, ncvars, evvars, fovars, formvars, restvars, flvars, ffvars, frvars>>
    /\ sg_pc \in {"returned", "raised"}
    /\ sg_pc' = "idle"
    /\ new_security_group_ids' = {}
    /\ wanted_groups' = {}
    /\ current_group_names' = {}
    /\ groups_to_add' = {}
    /\ groups_to_remove' = {}
    /\ add_iter' = {}
    /\ remove_iter' = {}
    /\ num_groups_to_modify' = 0
    /\ sg_calls' = <<>>
    /\ sg_err' = NoError
    /\ sg_failed_at' = "none"
    /\ sg_raised' = NoRaise
    /\ sg_returned' = FALSE
    /\ UNCHANGED server_groups

\* ------------------------------------------------------------------------
\* server_list
\* ------------------------------------------------------------------------
OtherTenantId == "tenant-2"

\* getattr(settings, 'API_RESULT_LIMIT', 1000)
DefaultApiResultLimit == 1000

Settings ==
    {[has_limit |-> FALSE, API_RESULT_LIMIT |-> 0]}
        \cup {[has_limit |-> TRUE, API_RESULT_LIMIT |-> v] : v \in 1..MaxResultLimit}

ApiResultLimit(settings) ==
    IF settings.has_limit THEN settings.API_RESULT_LIMIT ELSE DefaultApiResultLimit

\* dictionaries are functions from their keys
EmptyDict == <<>>

DictPop(d, k) == [x \in DOMAIN d \ {k} |-> d[x]]

DictSet(d, k, v) == [x \in DOMAIN d \cup {k} |-> IF x = k THEN v ELSE d[x]]

\* the search_opts a caller may pass: None, or a dictionary with or without
\* 'paginate' and with or without a project_id or an all_tenants of its own
SearchOptsArgs ==
    {[is_none |-> TRUE, opts |-> EmptyDict]}
        \cup {[is_none |-> FALSE, opts |-> d] :
                d \in {EmptyDict,
                       DictSet(EmptyDict, "paginate", TRUE),
                       DictSet(EmptyDict, "paginate", FALSE),
                       DictSet(EmptyDict, "project_id", OtherTenantId),
                       DictSet(DictSet(EmptyDict, "paginate", TRUE), "project_id", OtherTenantId),
                       DictSet(DictSet(EmptyDict, "paginate", FALSE), "project_id", OtherTenantId),
                       DictSet(EmptyDict, "all_tenants", TRUE),
                       DictSet(DictSet(EmptyDict, "paginate", TRUE), "all_tenants", TRUE),
                       DictSet(DictSet(EmptyDict, "project_id", OtherTenantId), "all_tenants", TRUE)}}

\* lines 579-585: the paginate flag taken out of search_opts
Paginate(arg) ==
    IF arg.is_none THEN FALSE
    ELSE IF "paginate" \in DOMAIN arg.opts THEN arg.opts["paginate"]
    ELSE FALSE

\* 'paginate' read with get instead of pop: the key stays in search_opts
SentSearchOpts_KeepPaginate(arg, page_size, all_tenants) ==
    LET opts1 == IF arg.is_none THEN EmptyDict
                 ELSE IF "paginate" \in DOMAIN arg.opts
                      THEN IF arg.opts["paginate"]
                           THEN DictSet(arg.opts, "limit", page_size + 1)
                           ELSE arg.opts
                      ELSE arg.opts
    IN  IF all_tenants THEN DictSet(opts1, "all_tenants", TRUE)
        ELSE DictSet(opts1, "project_id", TenantId)

\* project_id set with setdefault: a project_id of the caller is kept
SentSearchOpts_CallerProject(arg, page_size, all_tenants) ==
    LET opts1 == IF arg.is_none THEN EmptyDict
                 ELSE IF "paginate" \in DOMAIN arg.opts
                      THEN IF arg.opts["paginate"]
                           THEN DictSet(DictPop(arg.opts, "paginate"), "limit", page_size + 1)
                           ELSE DictPop(arg.opts, "paginate")
                      ELSE arg.opts
    IN  IF all_tenants THEN DictSet(opts1, "all_tenants", TRUE)
        ELSE IF "project_id" \in DOMAIN opts1 THEN opts1
             ELSE DictSet(opts1, "project_id", TenantId)

\* lines 580-590: the search_opts handed to servers.list
SentSearchOpts(arg, page_size, all_tenants) ==
    LET opts1 == IF arg.is_none THEN EmptyDict
                 ELSE IF "paginate" \in DOMAIN arg.opts
                      THEN IF arg.opts["paginate"]
                           THEN DictSet(DictPop(arg.opts, "paginate"), "limit", page_size + 1)
                           ELSE DictPop(arg.opts, "paginate")
                      ELSE arg.opts
    IN  IF all_tenants THEN DictSet(opts1, "all_tenants", TRUE)
        ELSE DictSet(opts1, "project_id", TenantId)

\* servers.pop(-1)
PopLast(servers) == SubSeq(servers, 1, Len(servers) - 1)

\* the paginate flag not looked at
Trimmed_IgnoresPaginate(paginate, servers, page_size, result_limit) ==
    IF Len(servers) > page_size
    THEN [servers |-> PopLast(servers), has_more_data |-> TRUE]
    ELSE IF Len(servers) = result_limit
         THEN [servers |-> servers, has_more_data |-> TRUE]
         ELSE [servers |-> servers, has_more_data |-> FALSE]

\* the overflow test taken with >= instead of >
Trimmed_OffByOne(paginate, servers, page_size, result_limit) ==
    IF paginate /\ Len(servers) >= page_size
    THEN [servers |-> PopLast(servers), has_more_data |-> TRUE]
    ELSE IF paginate /\ Len(servers) = result_limit
         THEN [servers |-> servers, has_more_data |-> TRUE]
         ELSE [servers |-> servers, has_more_data |-> FALSE]

\* the API_RESULT_LIMIT branch left out
Trimmed_NoCap(paginate, servers, page_size, result_limit) ==
    IF paginate /\ Len(servers) > page_size
    THEN [servers |-> PopLast(servers), has_more_data |-> TRUE]
    ELSE [servers |-> servers, has_more_data |-> FALSE]

\* lines 594-601: the pair (servers, has_more_data)
Trimmed(paginate, servers, page_size, result_limit) ==
    IF paginate /\ Len(servers) > page_size
    THEN [servers |-> PopLast(servers), has_more_data |-> TRUE]
    ELSE IF paginate /\ Len(servers) = result_limit
         THEN [servers |-> servers, has_more_data |-> TRUE]
         ELSE [servers |-> servers, has_more_data |-> FALSE]

\* rows the remote service may answer with: at most 'limit' rows when a
\* limit was sent
RemoteRowCounts(sent) ==
    IF "limit" \in DOMAIN sent
    THEN { k \in 0..(MaxPageSize + 2) : k <= sent["limit"] }
    ELSE 0..MaxRows

Rows(k) == [i \in 1..k |-> i]

NoCall == [page_size |-> 0, search_opts |-> [is_none |-> TRUE, opts |-> EmptyDict],
           all_tenants |-> FALSE, settings |-> [has_limit |-> FALSE, API_RESULT_LIMIT |-> 0]]

NoRemote == [search_opts |-> EmptyDict, rows |-> <<>>]

NoResult == [servers |-> <<>>, has_more_data |-> FALSE, raised |-> NoRaise]

InitSL ==
    /\ sl_pc = "idle"
    /\ sl_call = NoCall
    /\ sl_remote = NoRemote
    /\ sl_result = NoResult

server_list ==
    /\ UNCHANGED <<sgvars, limvars, ncvars, evvars, fovars, formvars, restvars, flvars, ffvars, frvars>>
    /\ sl_pc = "idle"
    /\ \E page_size \in 1..MaxPageSize, arg \in SearchOptsArgs,
          all_tenants \in BOOLEAN, settings \in Settings :
          LET sent == SentSearchOpts(arg, page_size, all_tenants) IN
          /\ sl_call' = [page_size |-> page_size, search_opts |-> arg,
                         all_tenants |-> all_tenants, settings |-> settings]
          /\ \/ \E k \in RemoteRowCounts(sent) :
                   /\ sl_remote' = [search_opts |-> sent, rows |-> Rows(k)]
                   /\ sl_result' =
                         [servers |-> Trimmed(Paginate(arg), Rows(k), page_size,
                                              ApiResultLimit(settings)).servers,
                          has_more_data |-> Trimmed(Paginate(arg), Rows(k), page_size,
                                                    ApiResultLimit(settings)).has_more_data,
                          raised |-> NoRaise]
                   /\ sl_pc' = "returned"
             \/ \E err \in RemoteErrors :
                   /\ sl_remote' = [search_opts |-> sent, rows |-> <<>>]
                   /\ sl_result' = [servers |-> <<>>, has_more_data |-> FALSE,
                                    raised |-> Propagated(err)]
                   /\ sl_pc' = "raised"

\* the caller has the result
sl_done ==
    /\ UNCHANGED <<sgvars, limvars, ncvars, evvars, fovars, formvars, restvars, flvars, ffvars, frvars>>
    /\ sl_pc \in {"returned", "raised"}
    /\ sl_pc' = "idle"
    /\ sl_call' = NoCall
    /\ sl_remote' = NoRemote
    /\ sl_result' = NoResult


\* ------------------------------------------------------------------------
\* tenant_absolute_limits
\* ------------------------------------------------------------------------
\* limit names are strings: sequences of characters
totalRAMUsed == <<"t", "o", "t", "a", "l", "R", "A", "M", "U", "s", "e", "d">>

maxTotalCores == <<"m", "a", "x", "T", "o", "t", "a", "l", "C", "o", "r", "e", "s">>

totalQuota == <<"t", "o", "t", "a", "l", "Q", "u", "o", "t", "a">>

maxUsed == <<"m", "a", "x", "U", "s", "e", "d">>

TotalUsed == <<"T", "o", "t", "a", "l", "U", "s", "e", "d">>

LimitNames == {totalRAMUsed, maxTotalCores, totalQuota, maxUsed, TotalUsed}

LimitValues == (0 - MaxAbsValue)..MaxAbsValue

\* str.startswith
StartsWith(str, prefix) ==
    /\ Len(str) >= Len(prefix)
    /\ SubSeq(str, 1, Len(prefix)) = prefix

\* str.endswith
EndsWith(str, suffix) ==
    /\ Len(str) >= Len(suffix)
    /\ SubSeq(str, Len(str) - Len(suffix) + 1, Len(str)) = suffix

\* the two tests joined by or
IsUsedCounter_Either(name) ==
    StartsWith(name, <<"t", "o", "t", "a", "l">>) \/ EndsWith(name, <<"U", "s", "e", "d">>)

\* limit.name.startswith('total') and limit.name.endswith('Used')
IsUsedCounter(name) ==
    StartsWith(name, <<"t", "o", "t", "a", "l">>) /\ EndsWith(name, <<"U", "s", "e", "d">>)

\* a number, and float("inf")
Num(v) == [inf |-> FALSE, v |-> v]

Infinity == [inf |-> TRUE, v |-> 0]

\* the body of the for loop, for one limit
CorrectedValue(limit) ==
    IF limit.value < 0
    THEN IF IsUsedCounter(limit.name) THEN Num(0) ELSE Infinity
    ELSE Num(limit.value)

\* the for loop over limits, filling limits_dict
RECURSIVE LimitsDict(_, _)
LimitsDict(limits, limits_dict) ==
    IF limits = <<>> THEN limits_dict
    ELSE LimitsDict(Tail(limits),
                    DictSet(limits_dict, Head(limits).name, CorrectedValue(Head(limits))))

\* what limits.get(...).absolute may hold: limits with distinct names
AbsoluteLimits ==
    UNION { { l \in [1..n -> [name : LimitNames, value : LimitValues]] :
                \A i, j \in 1..n : l[i].name = l[j].name => i = j } : n \in 0..MaxLimits }

InitLim ==
    /\ lim_pc = "idle"
    /\ lim_remote = <<>>
    /\ lim_result = [limits_dict |-> EmptyDict, raised |-> NoRaise]

tenant_absolute_limits ==
    /\ UNCHANGED <<sgvars, slvars, ncvars, evvars, fovars, formvars, restvars, flvars, ffvars, frvars>>
    /\ lim_pc = "idle"
    /\ \/ \E limits \in AbsoluteLimits :
             /\ lim_remote' = limits
             /\ lim_result' = [limits_dict |-> LimitsDict(limits, EmptyDict), raised |-> NoRaise]
             /\ lim_pc' = "returned"
       \/ \E err \in RemoteErrors :
             /\ lim_remote' = <<>>
             /\ lim_result' = [limits_dict |-> EmptyDict, raised |-> Propagated(err)]
             /\ lim_pc' = "raised"

\* the caller has the result
lim_done ==
    /\ UNCHANGED <<sgvars, slvars, ncvars, evvars, fovars, formvars, restvars, flvars, ffvars, frvars>>
    /\ lim_pc \in {"returned", "raised"}
    /\ lim_pc' = "idle"
    /\ lim_remote' = <<>>
    /\ lim_result' = [limits_dict |-> EmptyDict, raised |-> NoRaise]


\* ------------------------------------------------------------------------
\* novaclient(request), memoized per request context
\* ------------------------------------------------------------------------
Requests == 1..MaxRequests

Users ==
    {[username |-> "alice", token_id |-> "token-a", tenant_id |-> "tenant-1",
      compute_url |-> "http://nova/v2/tenant-1"],
     [username |-> "bob", token_id |-> "token-b", tenant_id |-> "tenant-2",
      compute_url |-> "http://nova/v2/tenant-2"]}

NoUser == [username |-> "", token_id |-> "", tenant_id |-> "", compute_url |-> ""]

\* no client: None
NoClient == 0

\* the decorator is left out
NotMemoized == FALSE

\* line 432: novaclient is wrapped by @memoized
Memoized == TRUE

\* the two assignments after the constructor call left out
Client_NoTokenSet(user) ==
    [username |-> user.username,
     api_key |-> user.token_id,
     project_id |-> user.tenant_id,
     auth_url |-> user.compute_url,
     insecure |-> FALSE,
     cacert |-> "None",
     auth_token |-> "",
     management_url |-> ""]

\* lines 434-447: the client built from the credentials of the request
Client(user) ==
    [username |-> user.username,
     api_key |-> user.token_id,
     project_id |-> user.tenant_id,
     auth_url |-> user.compute_url,
     insecure |-> FALSE,
     cacert |-> "None",
     auth_token |-> user.token_id,
     management_url |-> user.compute_url]

\* lines 436-437: the debug log entry
LogEntry(user) == [token |-> user.token_id, url |-> user.compute_url]

InitNC ==
    /\ req_state = [r \in Requests |-> "unborn"]
    /\ req_user = [r \in Requests |-> NoUser]
    /\ nc_pc = [r \in Requests |-> "idle"]
    /\ nc_local = [r \in Requests |-> NoClient]
    /\ nc_cache = [r \in Requests |-> NoClient]
    /\ clients = <<>>
    /\ nc_log = <<>>
    /\ nc_returned = [r \in Requests |-> {}]
    /\ nc_calls = [r \in Requests |-> 0]

\* an inbound request arrives: a new request context
request_begin(r) ==
    /\ UNCHANGED <<sgvars, slvars, limvars, evvars, fovars, formvars, restvars, flvars, ffvars, frvars>>
    /\ req_state[r] = "unborn"
    /\ \E user \in Users : req_user' = [req_user EXCEPT ![r] = user]
    /\ req_state' = [req_state EXCEPT ![r] = "live"]
    /\ UNCHANGED <<nc_pc, nc_local, nc_cache, clients, nc_log, nc_returned, nc_calls>>

\* a facade operation calls novaclient(request): the memoized wrapper looks
\* the request up and returns the cached client if there is one
novaclient_lookup(r) ==
    /\ UNCHANGED <<sgvars, slvars, limvars, evvars, fovars, formvars, restvars, flvars, ffvars, frvars>>
    /\ req_state[r] = "live"
    /\ nc_pc[r] = "idle"
    /\ nc_calls[r] < MaxCallsPerRequest
    /\ nc_calls' = [nc_calls EXCEPT ![r] = @ + 1]
    /\ IF Memoized /\ nc_cache[r] # NoClient
       THEN /\ nc_returned' = [nc_returned EXCEPT ![r] = @ \cup {nc_cache[r]}]
            /\ UNCHANGED nc_pc
       ELSE /\ nc_pc' = [nc_pc EXCEPT ![r] = "miss"]
            /\ UNCHANGED nc_returned
    /\ UNCHANGED <<req_state, req_user, nc_local, nc_cache, clients, nc_log>>

\* a module-level client shared by all requests
novaclient_shared(r) ==
    /\ UNCHANGED <<sgvars, slvars, limvars, evvars, fovars, formvars, restvars, flvars, ffvars, frvars>>
    /\ nc_pc[r] = "miss"
    /\ IF clients = <<>>
       THEN /\ clients' = Append(clients, Client(req_user[r]))
            /\ nc_log' = Append(nc_log, LogEntry(req_user[r]))
       ELSE UNCHANGED <<clients, nc_log>>
    /\ nc_local' = [nc_local EXCEPT ![r] = 1]
    /\ nc_pc' = [nc_pc EXCEPT ![r] = "built"]
    /\ UNCHANGED <<req_state, req_user, nc_cache, nc_returned, nc_calls>>

\* on a miss the body of novaclient runs: log entry, then a new Client
novaclient(r) ==
    /\ UNCHANGED <<sgvars, slvars, limvars, evvars, fovars, formvars, restvars, flvars, ffvars, frvars>>
    /\ nc_pc[r] = "miss"
    /\ nc_log' = Append(nc_log, LogEntry(req_user[r]))
    /\ clients' = Append(clients, Client(req_user[r]))
    /\ nc_local' = [nc_local EXCEPT ![r] = Len(clients) + 1]
    /\ nc_pc' = [nc_pc EXCEPT ![r] = "built"]
    /\ UNCHANGED <<req_state, req_user, nc_cache, nc_returned, nc_calls>>

\* the wrapper stores the new client under the request and returns it
novaclient_store(r) ==
    /\ UNCHANGED <<sgvars, slvars, limvars, evvars, fovars, formvars, restvars, flvars, ffvars, frvars>>
    /\ nc_pc[r] = "built"
    /\ nc_cache' = IF Memoized THEN [nc_cache EXCEPT ![r] = nc_local[r]] ELSE nc_cache
    /\ nc_returned' = [nc_returned EXCEPT ![r] = @ \cup {nc_local[r]}]
    /\ nc_local' = [nc_local EXCEPT ![r] = NoClient]
    /\ nc_pc' = [nc_pc EXCEPT ![r] = "idle"]
    /\ UNCHANGED <<req_state, req_user, clients, nc_log, nc_calls>>

\* the request ends: its context is discarded and with it the cache entry
request_end(r) ==
    /\ UNCHANGED <<sgvars, slvars, limvars, evvars, fovars, formvars, restvars, flvars, ffvars, frvars>>
    /\ req_state[r] = "live"
    /\ nc_pc[r] = "idle"
    /\ req_state' = [req_state EXCEPT ![r] = "ended"]
    /\ nc_cache' = [nc_cache EXCEPT ![r] = NoClient]
    /\ UNCHANGED <<req_user, nc_pc, nc_local, clients, nc_log, nc_returned, nc_calls>>


\* ------------------------------------------------------------------------
\* evacuate_host
\* ------------------------------------------------------------------------
ServerNameTable == <<"vm-a", "vm-b", "vm-c", "vm-d", "vm-e", "vm-f", "vm-g", "vm-h", "vm-i">>

ServerUuidTable == <<"uuid-1", "uuid-2", "uuid-3", "uuid-4", "uuid-5", "uuid-6", "uuid-7",
                     "uuid-8", "uuid-9">>

ServerDict(i) == [name |-> ServerNameTable[i], uuid |-> ServerUuidTable[i]]

\* a hypervisor of the search result: without a servers attribute, or with
\* n servers numbered from first + 1
HypervisorWith(has_servers, first, n) ==
    [has_servers |-> has_servers,
     servers |-> [i \in 1..n |-> ServerDict(first + i)]]

\* the lists hypervisors.search may return: every server is on one hypervisor
RECURSIVE SearchResults(_, _)
SearchResults(k, first) ==
    IF k = 0 THEN {<<>>}
    ELSE {<<>>}
         \cup { <<HypervisorWith(FALSE, first, 0)>> \o rest :
                  rest \in SearchResults(k - 1, first) }
         \cup UNION { { <<HypervisorWith(TRUE, first, n)>> \o rest :
                          rest \in SearchResults(k - 1, first + n) } :
                      n \in 0..MaxServersPerHypervisor }

\* Hypervisor.servers: [] when the attribute is not present
HypervisorServers(hypervisor) ==
    IF hypervisor.has_servers THEN hypervisor.servers ELSE <<>>

\* the servers the nested for loops visit, in order
RECURSIVE ServersToVisit(_)
ServersToVisit(hypervisors) ==
    IF hypervisors = <<>> THEN <<>>
    ELSE HypervisorServers(Head(hypervisors)) \o ServersToVisit(Tail(hypervisors))

\* "Name: %(name)s ID: %(uuid)s" % {...}
ServerMsg(server) == <<"Name: ", server.name, " ID: ", server.uuid>>

\* ', '.join(response)
RECURSIVE Join(_)
Join(msgs) ==
    IF msgs = <<>> THEN <<>>
    ELSE IF Len(msgs) = 1 THEN msgs[1]
    ELSE msgs[1] \o <<", ">> \o Join(Tail(msgs))

\* 'Failed to evacuate instances: %s' % ', '.join(response)
EvacuateMsg(msgs) == <<"Failed to evacuate instances: ">> \o Join(msgs)

\* if err_code: None and 0 are false
Truthy(code) == code # NoCode

NoEvResult == [returned |-> FALSE, raised |-> NoRaise]

InitEV ==
    /\ ev_pc = "idle"
    /\ ev_hypervisors = <<>>
    /\ ev_todo = <<>>
    /\ response = <<>>
    /\ err_code = NoCode
    /\ ev_attempts = <<>>
    /\ ev_result = NoEvResult

\* hypervisors = novaclient(request).hypervisors.search(host, True)
evacuate_host ==
    /\ UNCHANGED <<sgvars, slvars, limvars, ncvars, fovars, formvars, restvars, flvars, ffvars, frvars>>
    /\ ev_pc = "idle"
    /\ \/ \E hypervisors \in SearchResults(MaxHypervisors, 0) :
             /\ ev_hypervisors' = hypervisors
             /\ ev_todo' = ServersToVisit(hypervisors)
             /\ ev_pc' = "loop"
             /\ UNCHANGED ev_result
       \/ \E err \in RemoteErrors :
             /\ ev_result' = [returned |-> FALSE, raised |-> Propagated(err)]
             /\ ev_pc' = "raised"
             /\ UNCHANGED <<ev_hypervisors, ev_todo>>
    /\ UNCHANGED <<response, err_code, ev_attempts>>

\* the failure raised at once instead of being collected
EvacuateFailed_RaiseNow(server, err) ==
    /\ err_code' = err.code
    /\ response' = Append(response, ServerMsg(server))
    /\ ev_result' = [returned |-> FALSE,
                     raised |-> [kind |-> "ClientException", code |-> err.code,
                                 msg |-> EvacuateMsg(response'), fresh |-> TRUE]]
    /\ ev_pc' = "raised"

\* except nova_exceptions.ClientException as err: note the server, go on
EvacuateFailed(server, err) ==
    /\ err_code' = err.code
    /\ response' = Append(response, ServerMsg(server))
    /\ UNCHANGED <<ev_pc, ev_result>>

\* one pass of the inner loop: servers.evacuate(server['uuid'], ...)
ev_evacuate ==
    /\ UNCHANGED <<sgvars, slvars, limvars, ncvars, fovars, formvars, restvars, flvars, ffvars, frvars>>
    /\ ev_pc = "loop"
    /\ ev_todo # <<>>
    /\ ev_todo' = Tail(ev_todo)
    /\ \/ /\ ev_attempts' = Append(ev_attempts, [uuid |-> Head(ev_todo).uuid, ok |-> TRUE])
          /\ UNCHANGED <<response, err_code, ev_pc, ev_result>>
       \/ \E err \in RemoteErrors :
          /\ ev_attempts' = Append(ev_attempts, [uuid |-> Head(ev_todo).uuid, ok |-> FALSE])
          /\ IF err.kind = "ClientException"
             THEN EvacuateFailed(Head(ev_todo), err)
             ELSE /\ ev_result' = [returned |-> FALSE, raised |-> Propagated(err)]
                  /\ ev_pc' = "raised"
                  /\ UNCHANGED <<response, err_code>>
    /\ UNCHANGED ev_hypervisors

\* after the loops: raise once if err_code is set, else return True
ev_finish ==
    /\ UNCHANGED <<sgvars, slvars, limvars, ncvars, fovars, formvars, restvars, flvars, ffvars, frvars>>
    /\ ev_pc = "loop"
    /\ ev_todo = <<>>
    /\ IF Truthy(err_code)
       THEN /\ ev_result' = [returned |-> FALSE,
                             raised |-> [kind |-> "ClientException", code |-> err_code,
                                         msg |-> EvacuateMsg(response), fresh |-> TRUE]]
            /\ ev_pc' = "raised"
       ELSE /\ ev_result' = [returned |-> TRUE, raised |-> NoRaise]
            /\ ev_pc' = "returned"
    /\ UNCHANGED <<ev_hypervisors, ev_todo, response, err_code, ev_attempts>>

\* the caller has the result
ev_done ==
    /\ UNCHANGED <<sgvars, slvars, limvars, ncvars, fovars, formvars, restvars, flvars, ffvars, frvars>>
    /\ ev_pc \in {"returned", "raised"}
    /\ ev_pc' = "idle"
    /\ ev_hypervisors' = <<>>
    /\ ev_todo' = <<>>
    /\ response' = <<>>
    /\ err_code' = NoCode
    /\ ev_attempts' = <<>>
    /\ ev_result' = NoEvResult


\* ------------------------------------------------------------------------
\* The delegating facade operations
\* ------------------------------------------------------------------------
SingleCallOperations == {"server_delete", "server_get", "server_create", "keypair_list"}

FacadeOperations ==
    SingleCallOperations
        \cup {"flavor_create", "flavor_extra_set", "FloatingIpManager.associate",
              "FloatingIpManager.disassociate", "aggregate_details_list",
              "instance_volumes_list"}

\* metadata: whether the metadata argument is non-empty; items: how many
\* aggregates or volumes the remote listing holds
FacadeArgs == [metadata : BOOLEAN, items : 0..MaxItems]

Repeat(call, n) == [i \in 1..n |-> call]

\* set_keys called also for empty metadata
FlavorExtraSetCalls_AlwaysSet(metadata) == <<"flavors.get", "flavor.set_keys">>

\* flavor_extra_set: flavors.get, then set_keys unless metadata is empty
FlavorExtraSetCalls(metadata) ==
    IF ~ metadata THEN <<"flavors.get">> ELSE <<"flavors.get", "flavor.set_keys">>

\* flavor_create: flavors.create, then flavor_extra_set if metadata
FlavorCreateCalls(metadata) ==
    <<"flavors.create">> \o (IF metadata THEN FlavorExtraSetCalls(metadata) ELSE <<>>)

\* the client-library calls an operation makes when none of them fails
ClientCalls(op, arg) ==
    CASE op = "server_delete" -> <<"servers.delete">>
      [] op = "server_get" -> <<"servers.get">>
      [] op = "server_create" -> <<"servers.create">>
      [] op = "keypair_list" -> <<"keypairs.list">>
      [] op = "flavor_create" -> FlavorCreateCalls(arg.metadata)
      [] op = "flavor_extra_set" -> FlavorExtraSetCalls(arg.metadata)
      [] op = "FloatingIpManager.associate" ->
            <<"servers.get", "floating_ips.get", "servers.add_floating_ip">>
      [] op = "FloatingIpManager.disassociate" ->
            <<"floating_ips.get", "servers.get", "servers.remove_floating_ip">>
      [] op = "aggregate_details_list" ->
            <<"aggregates.list">> \o Repeat("aggregates.get_details", arg.items)
      [] op = "instance_volumes_list" ->
            <<"volumes.get_server_volumes">> \o Repeat("cinder.volumes.get", arg.items)

NoFacadeArg == [metadata |-> FALSE, items |-> 0]

NoFacadeResult == [returned |-> FALSE, raised |-> NoRaise]

InitFO ==
    /\ fo_pc = "idle"
    /\ fo_op = "none"
    /\ fo_arg = NoFacadeArg
    /\ fo_todo = <<>>
    /\ fo_calls = <<>>
    /\ fo_err = NoError
    /\ fo_result = NoFacadeResult

\* a caller invokes a facade operation
facade_call ==
    /\ UNCHANGED <<sgvars, slvars, limvars, ncvars, evvars, formvars, restvars, flvars, ffvars, frvars>>
    /\ fo_pc = "idle"
    /\ \E op \in FacadeOperations, arg \in FacadeArgs :
          /\ fo_op' = op
          /\ fo_arg' = arg
          /\ fo_todo' = ClientCalls(op, arg)
    /\ fo_pc' = "running"
    /\ UNCHANGED <<fo_calls, fo_err, fo_result>>

\* the failed call made again
ClientCallFailed_Retry(call, err) ==
    /\ fo_calls' = Append(fo_calls, [call |-> call, ok |-> FALSE])
    /\ fo_err' = err
    /\ UNCHANGED <<fo_todo, fo_pc, fo_result>>

\* no operation has an except clause: the error leaves the operation as it is
ClientCallFailed(call, err) ==
    /\ fo_calls' = Append(fo_calls, [call |-> call, ok |-> FALSE])
    /\ fo_err' = err
    /\ fo_result' = [returned |-> FALSE, raised |-> Propagated(err)]
    /\ fo_pc' = "raised"
    /\ UNCHANGED fo_todo

\* the operation makes its next client-library call
facade_client_call ==
    /\ UNCHANGED <<sgvars, slvars, limvars, ncvars, evvars, formvars, restvars, flvars, ffvars, frvars>>
    /\ fo_pc = "running"
    /\ fo_todo # <<>>
    /\ \/ /\ fo_calls' = Append(fo_calls, [call |-> Head(fo_todo), ok |-> TRUE])
          /\ fo_todo' = Tail(fo_todo)
          /\ UNCHANGED <<fo_pc, fo_err, fo_result>>
       \/ \E err \in RemoteErrors : ClientCallFailed(Head(fo_todo), err)
    /\ UNCHANGED <<fo_op, fo_arg>>

\* the operation returns
facade_return ==
    /\ UNCHANGED <<sgvars, slvars, limvars, ncvars, evvars, formvars, restvars, flvars, ffvars, frvars>>
    /\ fo_pc = "running"
    /\ fo_todo = <<>>
    /\ fo_result' = [returned |-> TRUE, raised |-> NoRaise]
    /\ fo_pc' = "returned"
    /\ UNCHANGED <<fo_op, fo_arg, fo_todo, fo_calls, fo_err>>

\* the caller has the result
facade_done ==
    /\ UNCHANGED <<sgvars, slvars, limvars, ncvars, evvars, formvars, restvars, flvars, ffvars, frvars>>
    /\ fo_pc \in {"returned", "raised"}
    /\ fo_pc' = "idle"
    /\ fo_op' = "none"
    /\ fo_arg' = NoFacadeArg
    /\ fo_todo' = <<>>
    /\ fo_calls' = <<>>
    /\ fo_err' = NoError
    /\ fo_result' = NoFacadeResult


\* ------------------------------------------------------------------------
\* regions/forms.py: registration of the form field classes
\* ------------------------------------------------------------------------
\* the class statements of the module that use MetaBaseFormFieldRegion, in
\* the order the module runs them
FieldClassStatements ==
    << [cls |-> "BaseFormFieldRegion", bases |-> {"BaseRegion"}],
       [cls |-> "CheckBoxFormFieldRegion", bases |-> {"BaseFormFieldRegion"}],
       [cls |-> "ChooseFileFormFieldRegion", bases |-> {"BaseFormFieldRegion"}],
       [cls |-> "BaseTextFormFieldRegion", bases |-> {"BaseFormFieldRegion"}],
       [cls |-> "TextInputFormFieldRegion", bases |-> {"BaseTextFormFieldRegion"}],
       [cls |-> "PasswordInputFormFieldRegion", bases |-> {"BaseTextFormFieldRegion"}],
       [cls |-> "TextAreaFormFieldRegion", bases |-> {"BaseTextFormFieldRegion"}],
       [cls |-> "IntegerFormFieldRegion", bases |-> {"BaseFormFieldRegion"}],
       [cls |-> "SelectFormFieldRegion", bases |-> {"BaseFormFieldRegion"}] >>

\* field classes defined after the module, by its users
ExtraClassTable == <<"ExtraFieldRegion1", "ExtraFieldRegion2", "ExtraFieldRegion3">>

ExtraClasses == { ExtraClassTable[i] : i \in 1..MaxExtraClasses }

\* the base classes left in the set
RegisterFieldCls_KeepBases(types, field_class, base_classes) ==
    types \cup {field_class}

\* FieldFactory.register_field_cls
RegisterFieldCls(types, field_class, base_classes) ==
    (types \cup {field_class}) \ base_classes

InitForms ==
    /\ FORM_FIELDS_TYPES = {}
    /\ class_bases = <<>>
    /\ statements_run = 0

\* the module runs its next class statement: the metaclass registers the
\* new class with its bases
class_statement ==
    /\ UNCHANGED <<sgvars, slvars, limvars, ncvars, evvars, fovars, restvars, flvars, ffvars, frvars>>
    /\ statements_run < Len(FieldClassStatements)
    /\ LET st == FieldClassStatements[statements_run + 1] IN
          /\ FORM_FIELDS_TYPES' = RegisterFieldCls(FORM_FIELDS_TYPES, st.cls, st.bases)
          /\ class_bases' = DictSet(class_bases, st.cls, st.bases)
    /\ statements_run' = statements_run + 1

\* a user of the module defines a further field class from one or two of the
\* field classes that exist
define_field_class ==
    /\ UNCHANGED <<sgvars, slvars, limvars, ncvars, evvars, fovars, restvars, flvars, ffvars, frvars>>
    /\ statements_run = Len(FieldClassStatements)
    /\ \E cls \in ExtraClasses \ DOMAIN class_bases :
       \E b1, b2 \in DOMAIN class_bases :
          /\ FORM_FIELDS_TYPES' = RegisterFieldCls(FORM_FIELDS_TYPES, cls, {b1, b2})
          /\ class_bases' = DictSet(class_bases, cls, {b1, b2})
    /\ UNCHANGED statements_run


\* ------------------------------------------------------------------------
\* REST endpoint for server creation (the caller of server_create)
\* ------------------------------------------------------------------------
StatusBadRequest == 400

StatusCreated == 201

\* the body parameters the handler hands to server_create, in argument order
RequiredParameters ==
    <<"name", "source_id", "flavor_id", "key_name", "user_data", "security_groups">>

\* a body parameter the handler does not require
OptionalParameters == {"availability_zone"}

\* the value a request gives to a parameter
ParameterValues ==
    [name |-> "Ni!", source_id |-> "image123", flavor_id |-> "flavor123",
     key_name |-> "sekrit", user_data |-> "base64 yes", security_groups |-> "root",
     availability_zone |-> "nova"]

\* the request bodies: any subset of the parameters
RequestBodies ==
    { [k \in keys |-> ParameterValues[k]] :
        keys \in SUBSET ({ RequiredParameters[i] : i \in DOMAIN RequiredParameters }
                            \cup OptionalParameters) }

\* index of the first required parameter the body lacks, 0 when none
FirstMissing(body) ==
    LET missing == { i \in DOMAIN RequiredParameters : RequiredParameters[i] \notin DOMAIN body }
    IN  IF missing = {} THEN 0
        ELSE CHOOSE i \in missing : \A j \in missing : i <= j

\* the failure answered as a server error
MissingParameterResponse_ServerError(parameter) ==
    [status |-> 500, content |-> <<"missing required parameter '", parameter, "'">>,
     location |-> <<>>]

\* the answer to a request that lacks a required parameter
MissingParameterResponse(parameter) ==
    [status |-> StatusBadRequest,
     content |-> <<"missing required parameter '", parameter, "'">>,
     location |-> <<>>]

\* the answer to a request that created a server
CreatedResponse(server_id) ==
    [status |-> StatusCreated, content |-> <<"{\"id\": \"", server_id, "\"}">>,
     location |-> <<"/api/nova/servers/", server_id>>]

\* the positional arguments of the server_create call
ServerCreateArgs(body) ==
    [i \in DOMAIN RequiredParameters |-> body[RequiredParameters[i]]]

NoResponse == [status |-> NoCode, content |-> <<>>, location |-> <<>>]

InitRest ==
    /\ rest_pc = "idle"
    /\ rest_body = EmptyDict
    /\ rest_response = NoResponse
    /\ rest_calls = <<>>

\* a request arrives at the handler
servers_post ==
    /\ UNCHANGED <<sgvars, slvars, limvars, ncvars, evvars, fovars, formvars, flvars, ffvars, frvars>>
    /\ rest_pc = "idle"
    /\ \E body \in RequestBodies : rest_body' = body
    /\ rest_pc' = "validate"
    /\ rest_response' = NoResponse
    /\ rest_calls' = <<>>

\* the handler collects the required parameters; a missing one ends the
\* request with the bad-request answer
servers_post_validate ==
    /\ UNCHANGED <<sgvars, slvars, limvars, ncvars, evvars, fovars, formvars, flvars, ffvars, frvars>>
    /\ rest_pc = "validate"
    /\ LET i == FirstMissing(rest_body) IN
          IF i # 0
          THEN /\ rest_response' = MissingParameterResponse(RequiredParameters[i])
               /\ rest_pc' = "responded"
          ELSE /\ rest_response' = rest_response
               /\ rest_pc' = "create"
    /\ UNCHANGED <<rest_body, rest_calls>>

\* the handler calls server_create and answers with the new server
servers_post_create ==
    /\ UNCHANGED <<sgvars, slvars, limvars, ncvars, evvars, fovars, formvars, flvars, ffvars, frvars>>
    /\ rest_pc = "create"
    /\ rest_calls' = Append(rest_calls, ServerCreateArgs(rest_body))
    /\ rest_response' = CreatedResponse("server123")
    /\ rest_pc' = "responded"
    /\ UNCHANGED rest_body

\* the response is sent; the handler is ready for the next request
servers_post_done ==
    /\ UNCHANGED <<sgvars, slvars, limvars, ncvars, evvars, fovars, formvars, flvars, ffvars, frvars>>
    /\ rest_pc = "responded"
    /\ rest_pc' = "idle"
    /\ rest_body' = EmptyDict
    /\ rest_response' = NoResponse
    /\ rest_calls' = <<>>


\* ------------------------------------------------------------------------
\* flavor_create and flavor_extra_set
\* ------------------------------------------------------------------------
MetadataKeyTable == <<"hw:cpu_policy", "hw:mem_page_size", "quota:disk_io">>

MetadataKeys == { MetadataKeyTable[i] : i \in 1..MaxMetadataKeys }

\* the metadata argument: None (the default) or a dict of extra specs
MetadataArgs ==
    {[is_none |-> TRUE, dict |-> EmptyDict]}
        \cup { [is_none |-> FALSE, dict |-> [k \in keys |-> "value"]] : keys \in SUBSET MetadataKeys }

NoFlavor == 0

\* extra specs are set for any dict, also the empty one
MetadataTruthy_NotNone(metadata) == ~ metadata.is_none

\* the truth value of the metadata argument: false for None and for {}
MetadataTruthy(metadata) == ~ metadata.is_none /\ DOMAIN metadata.dict # {}

\* dict.update as nova applies the keys of set_keys
DictUpdate(d, m) ==
    [k \in DOMAIN d \cup DOMAIN m |-> IF k \in DOMAIN m THEN m[k] ELSE d[k]]

\* flavorid='auto': nova gives the flavor the next free id
NewFlavorId == Cardinality(DOMAIN remote_flavors) + 1

NoFlavorResult == [returned |-> NoFlavor, raised |-> NoRaise]

InitFL ==
    /\ fl_pc = "idle"
    /\ fl_metadata = [is_none |-> TRUE, dict |-> EmptyDict]
    /\ fl_flavor = NoFlavor
    /\ fl_before = {}
    /\ fl_calls = <<>>
    /\ fl_result = NoFlavorResult
    /\ remote_flavors = EmptyDict

\* a caller invokes flavor_create
flavor_create ==
    /\ UNCHANGED <<sgvars, slvars, limvars, ncvars, evvars, fovars, formvars, restvars, ffvars, frvars>>
    /\ fl_pc = "idle"
    /\ Cardinality(DOMAIN remote_flavors) < MaxFlavors
    /\ \E metadata \in MetadataArgs : fl_metadata' = metadata
    /\ fl_before' = DOMAIN remote_flavors
    /\ fl_pc' = "flavors.create"
    /\ UNCHANGED <<fl_flavor, fl_calls, fl_result, remote_flavors>>

\* neither function has an except clause: the error of a client-library call
\* leaves flavor_create as it is, nova is left as it was
FlavorCallFailed(call, err) ==
    /\ fl_calls' = Append(fl_calls, [call |-> call, ok |-> FALSE])
    /\ fl_result' = [returned |-> NoFlavor, raised |-> Propagated(err)]
    /\ fl_pc' = "raised"
    /\ UNCHANGED <<fl_metadata, fl_flavor, fl_before, remote_flavors>>

\* flavors.create, then the test of metadata
fl_flavors_create ==
    /\ UNCHANGED <<sgvars, slvars, limvars, ncvars, evvars, fovars, formvars, restvars, ffvars, frvars>>
    /\ fl_pc = "flavors.create"
    /\ \/ /\ fl_calls' = Append(fl_calls, [call |-> "flavors.create", ok |-> TRUE])
          /\ remote_flavors' = DictSet(remote_flavors, NewFlavorId, EmptyDict)
          /\ fl_flavor' = NewFlavorId
          /\ fl_pc' = IF MetadataTruthy(fl_metadata) THEN "flavors.get" ELSE "return"
          /\ UNCHANGED <<fl_metadata, fl_before, fl_result>>
       \/ \E err \in RemoteErrors : FlavorCallFailed("flavors.create", err)

\* flavor_extra_set: flavors.get, then the test of metadata
fl_flavors_get ==
    /\ UNCHANGED <<sgvars, slvars, limvars, ncvars, evvars, fovars, formvars, restvars, ffvars, frvars>>
    /\ fl_pc = "flavors.get"
    /\ \/ /\ fl_calls' = Append(fl_calls, [call |-> "flavors.get", ok |-> TRUE])
          /\ fl_pc' = IF ~ MetadataTruthy(fl_metadata) THEN "return" ELSE "flavor.set_keys"
          /\ UNCHANGED <<fl_metadata, fl_flavor, fl_before, fl_result, remote_flavors>>
       \/ \E err \in RemoteErrors : FlavorCallFailed("flavors.get", err)

\* flavor_extra_set: flavor.set_keys(metadata)
fl_set_keys ==
    /\ UNCHANGED <<sgvars, slvars, limvars, ncvars, evvars, fovars, formvars, restvars, ffvars, frvars>>
    /\ fl_pc = "flavor.set_keys"
    /\ \/ /\ fl_calls' = Append(fl_calls, [call |-> "flavor.set_keys", ok |-> TRUE])
          /\ remote_flavors' =
                DictSet(remote_flavors, fl_flavor,
                        DictUpdate(remote_flavors[fl_flavor], fl_metadata.dict))
          /\ fl_pc' = "return"
          /\ UNCHANGED <<fl_metadata, fl_flavor, fl_before, fl_result>>
       \/ \E err \in RemoteErrors : FlavorCallFailed("flavor.set_keys", err)

\* return flavor
fl_return ==
    /\ UNCHANGED <<sgvars, slvars, limvars, ncvars, evvars, fovars, formvars, restvars, ffvars, frvars>>
    /\ fl_pc = "return"
    /\ fl_result' = [returned |-> fl_flavor, raised |-> NoRaise]
    /\ fl_pc' = "returned"
    /\ UNCHANGED <<fl_metadata, fl_flavor, fl_before, fl_calls, remote_flavors>>

\* the caller has the result
fl_done ==
    /\ UNCHANGED <<sgvars, slvars, limvars, ncvars, evvars, fovars, formvars, restvars, ffvars, frvars>>
    /\ fl_pc \in {"returned", "raised"}
    /\ fl_pc' = "idle"
    /\ fl_metadata' = [is_none |-> TRUE, dict |-> EmptyDict]
    /\ fl_flavor' = NoFlavor
    /\ fl_before' = {}
    /\ fl_calls' = <<>>
    /\ fl_result' = NoFlavorResult
    /\ UNCHANGED remote_flavors


\* ------------------------------------------------------------------------
\* regions/forms.py: FieldFactory.make_form_field
\* ------------------------------------------------------------------------
NoLocator == "None"

InheritedLocator == "inherited"

\* _element_locator as the class statements of the module assign it
ModuleLocators ==
    [BaseFormFieldRegion |-> NoLocator,
     CheckBoxFormFieldRegion |-> "div > label > input[type=checkbox]",
     ChooseFileFormFieldRegion |-> "div > input[type=file]",
     BaseTextFormFieldRegion |-> NoLocator,
     TextInputFormFieldRegion |-> "div > input[type=text]",
     PasswordInputFormFieldRegion |-> "div > input[type=password]",
     TextAreaFormFieldRegion |-> "div > textarea",
     IntegerFormFieldRegion |-> "div > input[type=number]",
     SelectFormFieldRegion |-> "div > select"]

\* _element_locator of the classes defined by users of the module: the first
\* and the third name their own element, the second keeps that of its base
ExtraLocators ==
    [ExtraFieldRegion1 |-> "div > input[type=email]",
     ExtraFieldRegion2 |-> InheritedLocator,
     ExtraFieldRegion3 |-> "div > input[type=url]"]

\* form_type._element_locator: the class's own assignment, else that of its
\* base class
RECURSIVE LocatorOf(_)
LocatorOf(cls) ==
    IF cls \in DOMAIN ModuleLocators THEN ModuleLocators[cls]
    ELSE IF cls \notin DOMAIN class_bases THEN NoLocator
    ELSE IF ExtraLocators[cls] # InheritedLocator THEN ExtraLocators[cls]
    ELSE LocatorOf(CHOOSE b \in class_bases[cls] : TRUE)

\* the source elements a factory is made for, as the locators matching in them
SourceElements ==
    { {},
      {"div > input[type=text]"},
      {"div > select"},
      {"div > input[type=password]", "div > input[type=text]"},
      {"div > input[type=email]"} }

\* the loop runs over every class that was ever defined
IteratedTypes_AllClasses == DOMAIN class_bases \ {"BaseFormFieldRegion"}

\* for form_type in self.FORM_FIELDS_TYPES
IteratedTypes == FORM_FIELDS_TYPES

NoClass == "none"

NoFieldResult == [returned |-> NoClass, raised |-> NoRaise]

FieldRaised(exception) ==
    [returned |-> NoClass,
     raised |-> [kind |-> exception, code |-> NoCode, msg |-> <<>>, fresh |-> TRUE]]

InitFF ==
    /\ mf_pc = "idle"
    /\ mf_elem = {}
    /\ mf_todo = {}
    /\ mf_result = NoFieldResult

\* a user of the loaded module derives a field class from a registered one
define_field_subclass ==
    /\ UNCHANGED <<sgvars, slvars, limvars, ncvars, evvars, fovars, restvars, flvars, frvars>>
    /\ statements_run = Len(FieldClassStatements)
    /\ mf_pc = "idle"
    /\ \E i \in 1..MaxExtraClasses, base \in FORM_FIELDS_TYPES :
          /\ ExtraClasses \cap DOMAIN class_bases = { ExtraClassTable[j] : j \in 1..(i - 1) }
          /\ FORM_FIELDS_TYPES' = RegisterFieldCls(FORM_FIELDS_TYPES, ExtraClassTable[i], {base})
          /\ class_bases' = DictSet(class_bases, ExtraClassTable[i], {base})
    /\ UNCHANGED <<statements_run, ffvars>>

\* a factory made for a source element is asked for the form field
make_form_field ==
    /\ UNCHANGED <<sgvars, slvars, limvars, ncvars, evvars, fovars, formvars, restvars, flvars, frvars>>
    /\ statements_run = Len(FieldClassStatements)
    /\ mf_pc = "idle"
    /\ \E elem \in SourceElements : mf_elem' = elem
    /\ mf_todo' = IteratedTypes
    /\ mf_pc' = "loop"
    /\ UNCHANGED mf_result

\* one round of the loop: the set hands out any class not yet seen; the class
\* is returned if its locator matches in the source element
mf_probe ==
    /\ UNCHANGED <<sgvars, slvars, limvars, ncvars, evvars, fovars, formvars, restvars, flvars, frvars>>
    /\ mf_pc = "loop"
    /\ \E form_type \in mf_todo :
          IF LocatorOf(form_type) = NoLocator
          THEN /\ mf_result' = FieldRaised("TypeError")
               /\ mf_pc' = "raised"
               /\ UNCHANGED mf_todo
          ELSE IF LocatorOf(form_type) \in mf_elem
          THEN /\ mf_result' = [returned |-> form_type, raised |-> NoRaise]
               /\ mf_pc' = "returned"
               /\ UNCHANGED mf_todo
          ELSE /\ mf_todo' = mf_todo \ {form_type}
               /\ UNCHANGED <<mf_pc, mf_result>>
    /\ UNCHANGED mf_elem

\* the loop is over without a return
mf_unknown ==
    /\ UNCHANGED <<sgvars, slvars, limvars, ncvars, evvars, fovars, formvars, restvars, flvars, frvars>>
    /\ mf_pc = "loop"
    /\ mf_todo = {}
    /\ mf_result' = FieldRaised("UnknownFormFieldTypeException")
    /\ mf_pc' = "raised"
    /\ UNCHANGED <<mf_elem, mf_todo>>

\* the caller has the field or the exception
mf_done ==
    /\ UNCHANGED <<sgvars, slvars, limvars, ncvars, evvars, fovars, formvars, restvars, flvars, frvars>>
    /\ mf_pc \in {"returned", "raised"}
    /\ mf_pc' = "idle"
    /\ mf_elem' = {}
    /\ mf_todo' = {}
    /\ mf_result' = NoFieldResult


\* ------------------------------------------------------------------------
\* regions/forms.py: FormRegion._get_form_fields and TabbedFormRegion
\* ------------------------------------------------------------------------
\* the tabs of a page, counted from 0 as enumerate does
TabIndexes == 0..(NumTabs - 1)

NoTab == -1

NoName == "none"

\* form_field_names of a tabbed form: one tuple of field names for each tab
FieldNameTable ==
    << <<"network_name", "admin_state">>,
       <<"create_subnet", "subnet_name">>,
       <<"enable_dhcp", "allocation_pools">> >>

form_field_names == SubSeq(FieldNameTable, 1, NumTabs)

\* TabbedFormRegion._init_form_fields: the names of a tuple are bound to a
\* GetFieldsMethod that holds the tuple's index in form_field_names
BoundTabIndex(name) ==
    (CHOOSE index \in DOMAIN form_field_names :
        \E j \in DOMAIN form_field_names[index] : form_field_names[index][j] = name) - 1

FieldNames ==
    UNION { { form_field_names[i][j] : j \in DOMAIN form_field_names[i] } :
                i \in DOMAIN form_field_names }

\* the field elements of a page: the locators matching inside the element
\* and the tab that shows it
FieldElements ==
    [locators : { {"div > input[type=text]"}, {} }, tab : TabIndexes]

\* the pages: up to MaxFields field elements
RECURSIVE ElementLists(_)
ElementLists(n) ==
    IF n = 0 THEN {<<>>}
    ELSE ElementLists(n - 1)
            \cup { Append(l, e) : l \in { x \in ElementLists(n - 1) : Len(x) = n - 1 },
                                  e \in FieldElements }

\* the classes make_form_field can return for an element
MadeFields(elem) == { c \in IteratedTypes : LocatorOf(c) \in elem.locators }

\* field.is_displayed(): the page shows the elements of its current tab
IsDisplayed(field) == field.elem.tab = current_tab

\* every field returned, displayed or not
DisplayedFields_All(fields) == fields

\* [field for field in self.get_fields() if field.is_displayed()]
DisplayedFields(fields) == SelectSeq(fields, IsDisplayed)

\* baseregion: the driver's implicit wait is set to zero
TurnOffImplicitWait == implicit_wait' = FALSE

\* baseregion: the driver's implicit wait is set to the configured timeout
TurnOnImplicitWait == implicit_wait' = TRUE

\* baseregion: the probes of _is_element_present leave the implicit wait as
\* it is or end with it on
IsElementPresentWait == implicit_wait' \in {implicit_wait, TRUE}

\* menus.TabbedMenuRegion.switch_to: the page shows the tab
SwitchTo(index) == current_tab' = index

NoFieldsResult == [returned |-> <<>>, raised |-> NoRaise, has_returned |-> FALSE]

InitFR ==
    /\ fr_pc = "idle"
    /\ fr_name = NoName
    /\ fr_tab_index = NoTab
    /\ current_tab = 0
    /\ implicit_wait = TRUE
    /\ fields_els = <<>>
    /\ form_fields = <<>>
    /\ fr_pending = NoRaise
    /\ fr_log = <<>>
    /\ fr_result = NoFieldsResult

\* FormRegion.fields: the fields of a form without tabs are read
form_fields_read ==
    /\ UNCHANGED <<sgvars, slvars, limvars, ncvars, evvars, fovars, formvars, restvars, flvars, ffvars>>
    /\ statements_run = Len(FieldClassStatements)
    /\ fr_pc = "idle"
    /\ fr_pc' = "get_elements"
    /\ UNCHANGED <<fr_name, fr_tab_index, current_tab, implicit_wait, fields_els, form_fields,
                   fr_pending, fr_log, fr_result>>

\* a field name of a tabbed form is read: the GetFieldsMethod bound to the
\* name is called
tabbed_fields_read ==
    /\ UNCHANGED <<sgvars, slvars, limvars, ncvars, evvars, fovars, formvars, restvars, flvars, ffvars>>
    /\ statements_run = Len(FieldClassStatements)
    /\ fr_pc = "idle"
    /\ \E name \in FieldNames :
          /\ fr_name' = name
          /\ fr_tab_index' = BoundTabIndex(name)
    /\ fr_pc' = "switch_to_tab"
    /\ UNCHANGED <<current_tab, implicit_wait, fields_els, form_fields, fr_pending, fr_log,
                   fr_result>>

\* GetFieldsMethod.__call__: self.switch_to_tab(self.tab_index)
fr_switch_to_tab ==
    /\ UNCHANGED <<sgvars, slvars, limvars, ncvars, evvars, fovars, formvars, restvars, flvars, ffvars>>
    /\ fr_pc = "switch_to_tab"
    /\ SwitchTo(fr_tab_index)
    /\ fr_log' = Append(fr_log, "switch_to_tab")
    /\ fr_pc' = "get_elements"
    /\ UNCHANGED <<fr_name, fr_tab_index, implicit_wait, fields_els, form_fields, fr_pending,
                   fr_result>>

\* _get_form_fields: fields_els = self._get_elements(*self._fields_locator)
fr_get_elements ==
    /\ UNCHANGED <<sgvars, slvars, limvars, ncvars, evvars, fovars, formvars, restvars, flvars, ffvars>>
    /\ fr_pc = "get_elements"
    /\ \E els \in ElementLists(MaxFields) : fields_els' = els
    /\ form_fields' = <<>>
    /\ fr_log' = Append(fr_log, "get_elements")
    /\ fr_pc' = "turn_off"
    /\ UNCHANGED <<fr_name, fr_tab_index, current_tab, implicit_wait, fr_pending, fr_result>>

\* try: self._turn_off_implicit_wait()
fr_turn_off_implicit_wait ==
    /\ UNCHANGED <<sgvars, slvars, limvars, ncvars, evvars, fovars, formvars, restvars, flvars, ffvars>>
    /\ fr_pc = "turn_off"
    /\ TurnOffImplicitWait
    /\ fr_log' = Append(fr_log, "turn_off_implicit_wait")
    /\ fr_pc' = IF fields_els = <<>> THEN "finally" ELSE "loop"
    /\ UNCHANGED <<fr_name, fr_tab_index, current_tab, fields_els, form_fields, fr_pending,
                   fr_result>>

\* the exception leaves the method at once
ProbeFailed_NoFinally(exception) ==
    /\ fr_result' = [returned |-> <<>>, raised |-> exception, has_returned |-> FALSE]
    /\ fr_pc' = "raised"
    /\ UNCHANGED <<form_fields, fr_pending>>

\* an exception inside the try block goes through the finally clause
ProbeFailed(exception) ==
    /\ fr_pending' = exception
    /\ fr_pc' = "finally"
    /\ UNCHANGED <<form_fields, fr_result>>

\* one round of the loop: form_fields.append(field_factory.make_form_field())
fr_make_form_field ==
    /\ UNCHANGED <<sgvars, slvars, limvars, ncvars, evvars, fovars, formvars, restvars, flvars, ffvars>>
    /\ fr_pc = "loop"
    /\ LET elem == fields_els[Len(form_fields) + 1] IN
          IF MadeFields(elem) = {}
          THEN ProbeFailed(FieldRaised("UnknownFormFieldTypeException").raised)
          ELSE /\ \E cls \in MadeFields(elem) :
                     form_fields' = Append(form_fields, [cls |-> cls, elem |-> elem])
               /\ fr_pc' = IF Len(form_fields) + 1 = Len(fields_els) THEN "finally" ELSE "loop"
               /\ UNCHANGED <<fr_pending, fr_result>>
    /\ IsElementPresentWait
    /\ fr_log' = Append(fr_log, "make_form_field")
    /\ UNCHANGED <<fr_name, fr_tab_index, current_tab, fields_els>>

\* finally: self._turn_on_implicit_wait(); then the return of form_fields or
\* the exception goes on to the caller
fr_finally ==
    /\ UNCHANGED <<sgvars, slvars, limvars, ncvars, evvars, fovars, formvars, restvars, flvars, ffvars>>
    /\ fr_pc = "finally"
    /\ TurnOnImplicitWait
    /\ fr_log' = Append(fr_log, "turn_on_implicit_wait")
    /\ IF fr_pending # NoRaise
       THEN /\ fr_result' = [returned |-> <<>>, raised |-> fr_pending, has_returned |-> FALSE]
            /\ fr_pc' = "raised"
       ELSE IF fr_tab_index = NoTab
       THEN /\ fr_result' = [returned |-> form_fields, raised |-> NoRaise, has_returned |-> TRUE]
            /\ fr_pc' = "returned"
       ELSE /\ fr_pc' = "is_displayed"
            /\ UNCHANGED fr_result
    /\ UNCHANGED <<fr_name, fr_tab_index, current_tab, fields_els, form_fields, fr_pending>>

\* GetFieldsMethod.__call__: the displayed fields are returned
fr_displayed ==
    /\ UNCHANGED <<sgvars, slvars, limvars, ncvars, evvars, fovars, formvars, restvars, flvars, ffvars>>
    /\ fr_pc = "is_displayed"
    /\ fr_result' = [returned |-> DisplayedFields(form_fields), raised |-> NoRaise,
                     has_returned |-> TRUE]
    /\ fr_log' = Append(fr_log, "is_displayed")
    /\ fr_pc' = "returned"
    /\ UNCHANGED <<fr_name, fr_tab_index, current_tab, implicit_wait, fields_els, form_fields,
                   fr_pending>>

\* the caller has the fields or the exception; the page and the driver stay
\* as the read left them
fr_done ==
    /\ UNCHANGED <<sgvars, slvars, limvars, ncvars, evvars, fovars, formvars, restvars, flvars, ffvars>>
    /\ fr_pc \in {"returned", "raised"}
    /\ fr_pc' = "idle"
    /\ fr_name' = NoName
    /\ fr_tab_index' = NoTab
    /\ fields_els' = <<>>
    /\ form_fields' = <<>>
    /\ fr_pending' = NoRaise
    /\ fr_log' = <<>>
    /\ fr_result' = NoFieldsResult
    /\ UNCHANGED <<current_tab, implicit_wait>>


\* ------------------------------------------------------------------------
\* Properties of update_instance_security_group
\* ------------------------------------------------------------------------
\* names of the groups the caller asked for, from the arguments of the call
DesiredNames == { g.name : g \in { h \in SecGroups : h.id \in new_security_group_ids } }

CallsOf(op) == { i \in 1..Len(sg_calls) : sg_calls[i].op = op }

GroupsCalled(op) == { sg_calls[i].group : i \in CallsOf(op) }

SucceededCalls == { i \in 1..Len(sg_calls) : sg_calls[i].ok }

SgDiffKnown == sg_pc \in {"add", "returned"} \/ sg_failed_at \in {"add", "remove"}

\* C1: the names passed to add_security_group are exactly (wanted minus
\* current), the names passed to remove_security_group exactly (current minus
\* wanted), each name in at most one call whatever the iteration order, a
\* group in both sets gets no call, and the operation returns True when every
\* call succeeded.
C1_ExactDifferences ==
    /\ SgDiffKnown =>
          /\ GroupsCalled("add") \subseteq (DesiredNames \ current_group_names)
          /\ GroupsCalled("remove") \subseteq (current_group_names \ DesiredNames)
          /\ \A i, j \in 1..Len(sg_calls) :
                sg_calls[i].group = sg_calls[j].group => i = j
          /\ \A i \in 1..Len(sg_calls) :
                sg_calls[i].group \notin (DesiredNames \cap current_group_names)
    /\ sg_pc = "returned" =>
          /\ GroupsCalled("add") = DesiredNames \ current_group_names
          /\ GroupsCalled("remove") = current_group_names \ DesiredNames
          /\ SucceededCalls = 1..Len(sg_calls)
          /\ sg_returned = TRUE
          /\ sg_raised = NoRaise
    /\ sg_returned = TRUE => sg_pc = "returned"

\* desired {A,B}, current {B,C}: A was added, C removed, True returned
C1_Witness ==
    /\ sg_pc = "returned"
    /\ DesiredNames = {"sg-A", "sg-B"}
    /\ current_group_names = {"sg-B", "sg-C"}
    /\ GroupsCalled("add") = {"sg-A"}
    /\ GroupsCalled("remove") = {"sg-C"}

\* C2: every add_security_group call happens before any
\* remove_security_group call: a removal is issued only when no planned
\* addition is still pending.
C2_AddsBeforeRemoves ==
    [][ (/\ Len(sg_calls') = Len(sg_calls) + 1
         /\ sg_calls'[Len(sg_calls')].op = "remove")
        => /\ \A i \in 1..Len(sg_calls) :
                 sg_calls[i].op = "add" => sg_calls[i].ok
           /\ (DesiredNames \ current_group_names) \subseteq GroupsCalled("add")
           /\ \A j \in 1..Len(sg_calls') : \A i \in 1..j :
                 ~(sg_calls'[i].op = "remove" /\ sg_calls'[j].op = "add") ]_vars

\* two additions were planned and made, then a removal was issued
C2_Witness ==
    /\ Cardinality(CallsOf("add")) = 2
    /\ Cardinality(CallsOf("remove")) >= 1
    /\ sg_calls[Len(sg_calls)].op = "remove"

PlannedChanges ==
    Cardinality(DesiredNames \ current_group_names)
        + Cardinality(current_group_names \ DesiredNames)

SgModifyFailedWithClientException ==
    /\ sg_pc = "raised"
    /\ sg_failed_at \in {"add", "remove"}
    /\ sg_err.kind = "ClientException"

\* C3: when an add or remove call fails with a ClientException, the count in
\* the re-raised error is the number of planned additions and removals minus
\* the number of calls that succeeded before the failure; it counts the
\* failing change, so it is at least 1.
C3_CountOfUnprocessed ==
    SgModifyFailedWithClientException =>
        /\ sg_raised.msg =
              Format(MsgModifyFailed, NumStr(PlannedChanges - Cardinality(SucceededCalls)))
        /\ PlannedChanges - Cardinality(SucceededCalls) >= 1
        /\ num_groups_to_modify = PlannedChanges - Cardinality(SucceededCalls)

\* a removal failed after an addition and a removal had succeeded, with one
\* more removal still to do
C3_Witness ==
    /\ SgModifyFailedWithClientException
    /\ sg_failed_at = "remove"
    /\ Cardinality(SucceededCalls) >= 1
    /\ PlannedChanges - Cardinality(SucceededCalls) = 2

\* C20: the operation stops at the first failing add or remove call: the
\* failed call is the last call made, and the changes that succeeded before
\* it stay in place, so the instance is left with a membership between the
\* old and the desired one.
C20_StopsAtFirstFailure ==
    /\ \A i \in 1..Len(sg_calls) : ~ sg_calls[i].ok => i = Len(sg_calls)
    /\ (sg_calls # <<>> /\ ~ sg_calls[Len(sg_calls)].ok) =>
          /\ sg_pc = "raised"
          /\ sg_failed_at = sg_calls[Len(sg_calls)].op
    /\ SgDiffKnown =>
          /\ server_groups =
                (current_group_names
                    \cup { sg_calls[i].group : i \in CallsOf("add") \cap SucceededCalls })
                    \ { sg_calls[i].group : i \in CallsOf("remove") \cap SucceededCalls }
          /\ (current_group_names \cap DesiredNames) \subseteq server_groups
          /\ server_groups \subseteq (current_group_names \cup DesiredNames)

\* an addition succeeded, then a removal failed with another removal still
\* planned: the added group is kept and both old groups are still there
C20_Witness ==
    /\ sg_pc = "raised"
    /\ Len(sg_calls) = 2
    /\ sg_calls[1].op = "add" /\ sg_calls[1].ok
    /\ sg_calls[2].op = "remove" /\ ~ sg_calls[2].ok
    /\ Cardinality(current_group_names \ DesiredNames) = 2
    /\ sg_calls[1].group \in server_groups
    /\ (current_group_names \ DesiredNames) \subseteq server_groups

\* text taken from the inputs of the call or from the remote error
Identifiers == GroupNames \cup GroupIds \cup {UnknownGroupId, InstanceId, TenantId} \cup ErrTexts

MsgHasIdentifier(msg) == \E i \in 1..Len(msg) : msg[i] \in Identifiers

\* C4: every ClientException of the client library raised while the
\* operation runs (listing the groups, listing the instance's groups, adding,
\* removing) reaches the caller as a new ClientException that carries the
\* code of the original error and a sanitized message.
C4_AlwaysClientException ==
    (sg_pc = "raised" /\ sg_err.kind = "ClientException") =>
        /\ sg_raised.kind = "ClientException"
        /\ sg_raised.fresh
        /\ sg_raised.code = sg_err.code
        /\ ~ MsgHasIdentifier(sg_raised.msg)

\* C5: the message of every error the operation surfaces contains no
\* security-group name, no tenant identifier and no other identifier of the
\* call's inputs or of the remote error text; its only variable part is a
\* count.
C5_OnlyACount ==
    sg_pc = "raised" =>
        /\ ~ MsgHasIdentifier(sg_raised.msg)
        /\ \E n \in 0..9 : sg_raised.msg \in {MsgListFailed, Format(MsgModifyFailed, NumStr(n))}

SgRaisedByOperation ==
    /\ sg_pc = "raised"
    /\ sg_failed_at \in {"list", "list_by_instance"} \/ sg_err.kind = "ClientException"

\* C5 as amended: the message of every error the operation raises itself (a
\* failed listing, or a ClientException from an add or remove call) contains
\* no security-group name, no group id, no tenant identifier and no remote
\* error text; its only variable part is a count, or, when listing the
\* instance's groups failed, the instance id the caller passed.
C5_CountOrInstanceId ==
    SgRaisedByOperation =>
        /\ \A i \in 1..Len(sg_raised.msg) :
              sg_raised.msg[i] \notin
                  (GroupNames \cup GroupIds \cup {UnknownGroupId, TenantId} \cup ErrTexts)
        /\ \/ sg_failed_at = "list" /\ sg_raised.msg = MsgListFailed
           \/ /\ sg_failed_at = "list_by_instance"
              /\ sg_raised.msg = Format(MsgListByInstanceFailed, InstanceId)
           \/ /\ sg_failed_at \in {"add", "remove"}
              /\ \E n \in 1..9 : sg_raised.msg = Format(MsgModifyFailed, NumStr(n))

\* an add call failed with a ClientException whose text names a group and the
\* tenant, after the caller asked for groups by id
C5_Witness ==
    /\ SgModifyFailedWithClientException
    /\ sg_err.text \in ErrTexts
    /\ new_security_group_ids # {}
    /\ sg_raised.msg = Format(MsgModifyFailed, NumStr(2))


\* ------------------------------------------------------------------------
\* Properties of server_list
\* ------------------------------------------------------------------------
PaginationRequested ==
    /\ ~ sl_call.search_opts.is_none
    /\ "paginate" \in DOMAIN sl_call.search_opts.opts
    /\ sl_call.search_opts.opts["paginate"] = TRUE

PagedListReturned == sl_pc = "returned" /\ PaginationRequested

RowCount == Len(sl_remote.rows)

FirstRows(n) == SubSeq(sl_remote.rows, 1, n)

ConfiguredLimit ==
    IF sl_call.settings.has_limit THEN sl_call.settings.API_RESULT_LIMIT ELSE 1000

\* C6: with pagination and page size N, N+1 remote rows give exactly the
\* first N rows and has_more_data True; N or fewer remote rows give all the
\* rows and has_more_data False, for every N, row count and API_RESULT_LIMIT.
C6_PageOrAll ==
    PagedListReturned =>
        /\ RowCount = sl_call.page_size + 1 =>
              /\ sl_result.servers = FirstRows(sl_call.page_size)
              /\ sl_result.has_more_data = TRUE
        /\ RowCount <= sl_call.page_size =>
              /\ sl_result.servers = sl_remote.rows
              /\ sl_result.has_more_data = FALSE

\* C6 as amended: with pagination and page size N, N+1 remote rows give
\* exactly the first N rows and has_more_data True; N or fewer remote rows
\* give all the rows, and has_more_data is False unless the row count equals
\* API_RESULT_LIMIT, in which case it is True.
C6_PageOrAllUnlessAtCap ==
    PagedListReturned =>
        /\ RowCount = sl_call.page_size + 1 =>
              /\ sl_result.servers = FirstRows(sl_call.page_size)
              /\ sl_result.has_more_data = TRUE
        /\ RowCount <= sl_call.page_size =>
              /\ sl_result.servers = sl_remote.rows
              /\ sl_result.has_more_data = (RowCount = ConfiguredLimit)

\* a full page of N = 2 rows came back with API_RESULT_LIMIT above it: all
\* rows are returned and no more data is signalled
C6_Witness ==
    /\ PagedListReturned
    /\ sl_call.page_size = 2
    /\ RowCount = 2
    /\ ConfiguredLimit = 3
    /\ sl_result.servers = <<1, 2>>
    /\ sl_result.has_more_data = FALSE

\* C7: with pagination, whenever the remote list returns more rows than the
\* page size, or exactly API_RESULT_LIMIT rows, the last row is removed from
\* the result and has_more_data is True.
C7_TrimmedInBothCases ==
    (PagedListReturned /\ (RowCount > sl_call.page_size \/ RowCount = ConfiguredLimit)) =>
        /\ sl_result.servers = FirstRows(RowCount - 1)
        /\ sl_result.has_more_data = TRUE

\* C7 as amended: with pagination, whenever the remote list returns more rows
\* than the page size the last (overflow) row is removed and has_more_data is
\* True; when it returns exactly API_RESULT_LIMIT rows and no more than the
\* page size, has_more_data is True and no row is removed; in both cases the
\* caller receives at most a page of rows, never the sentinel row.
C7_TrimmedOnOverflowOnly ==
    PagedListReturned =>
        /\ RowCount > sl_call.page_size =>
              /\ sl_result.servers = FirstRows(RowCount - 1)
              /\ sl_result.has_more_data = TRUE
        /\ (RowCount <= sl_call.page_size /\ RowCount = ConfiguredLimit) =>
              /\ sl_result.servers = sl_remote.rows
              /\ sl_result.has_more_data = TRUE
        /\ Len(sl_result.servers) <= sl_call.page_size
        /\ \A i \in 1..Len(sl_result.servers) : sl_result.servers[i] <= sl_call.page_size

\* exactly API_RESULT_LIMIT = 2 rows came back for a page size of 3
C7_Witness ==
    /\ PagedListReturned
    /\ sl_call.page_size = 3
    /\ ConfiguredLimit = 2
    /\ RowCount = 2
    /\ sl_result.has_more_data = TRUE
    /\ sl_result.servers = <<1, 2>>


\* the search_opts of the caller, {} when None was passed
CallerOpts == IF sl_call.search_opts.is_none THEN <<>> ELSE sl_call.search_opts.opts

ListCalled == sl_pc \in {"returned", "raised"}

C18_NoPaginationNoTrim ==
    (sl_pc = "returned" /\ ~ PaginationRequested) =>
        /\ sl_result.servers = sl_remote.rows
        /\ sl_result.has_more_data = FALSE

\* paginate = False, page size 1, and exactly API_RESULT_LIMIT = 3 rows
C18_Witness ==
    /\ sl_pc = "returned"
    /\ "paginate" \in DOMAIN CallerOpts
    /\ ~ PaginationRequested
    /\ sl_call.page_size = 1
    /\ ConfiguredLimit = 3
    /\ sl_remote.rows = <<1, 2, 3>>
    /\ sl_result.servers = <<1, 2, 3>>
    /\ sl_result.has_more_data = FALSE

\* C19: when all_tenants is false the search options sent contain project_id
\* equal to the tenant id of the requesting user, overriding a project_id of
\* the caller, and no all_tenants set by server_list; when all_tenants is
\* true they contain all_tenants = True and no project_id is added.
C19_TenantScoping ==
    ListCalled =>
        /\ ~ sl_call.all_tenants =>
              /\ "project_id" \in DOMAIN sl_remote.search_opts
              /\ sl_remote.search_opts["project_id"] = "tenant-1"
              /\ ("all_tenants" \in DOMAIN sl_remote.search_opts)
                    <=> ("all_tenants" \in DOMAIN CallerOpts)
        /\ sl_call.all_tenants =>
              /\ "all_tenants" \in DOMAIN sl_remote.search_opts
              /\ sl_remote.search_opts["all_tenants"] = TRUE
              /\ ("project_id" \in DOMAIN sl_remote.search_opts)
                    <=> ("project_id" \in DOMAIN CallerOpts)
              /\ "project_id" \in DOMAIN CallerOpts =>
                    sl_remote.search_opts["project_id"] = CallerOpts["project_id"]

\* the caller asked for the servers of another tenant without all_tenants
C19_Witness ==
    /\ ListCalled
    /\ ~ sl_call.all_tenants
    /\ "project_id" \in DOMAIN CallerOpts
    /\ CallerOpts["project_id"] = "tenant-2"
    /\ sl_remote.search_opts["project_id"] = "tenant-1"

\* ------------------------------------------------------------------------
\* Properties of tenant_absolute_limits
\* ------------------------------------------------------------------------
\* the names of the model that are 'used' counters
UsedCounterNames == {totalRAMUsed}

RemoteLimitNames == { lim_remote[i].name : i \in 1..Len(lim_remote) }

\* C8: every limit the remote service returned is mapped as follows: a
\* negative value of a 'used' counter (name starts with 'total' and ends with
\* 'Used') becomes exactly 0, any other negative value becomes infinity, a
\* value >= 0 is unchanged; the result has exactly one entry per limit name.
C8_SignCorrection ==
    lim_pc = "returned" =>
        /\ DOMAIN lim_result.limits_dict = RemoteLimitNames
        /\ \A i \in 1..Len(lim_remote) :
              LET name == lim_remote[i].name
                  value == lim_remote[i].value
                  out == lim_result.limits_dict[name]
              IN  /\ (value < 0 /\ name \in UsedCounterNames) => out = [inf |-> FALSE, v |-> 0]
                  /\ (value < 0 /\ name \notin UsedCounterNames) => out.inf = TRUE
                  /\ value >= 0 => out = [inf |-> FALSE, v |-> value]

\* a negative used counter, a negative limit whose name only ends with
\* 'Used', and a zero value were returned together
C8_Witness ==
    /\ lim_pc = "returned"
    /\ Len(lim_remote) = 3
    /\ \E i \in 1..3 : lim_remote[i] = [name |-> totalRAMUsed, value |-> -1]
    /\ \E i \in 1..3 : lim_remote[i] = [name |-> maxUsed, value |-> -1]
    /\ \E i \in 1..3 : lim_remote[i] = [name |-> maxTotalCores, value |-> 0]
    /\ lim_result.limits_dict[totalRAMUsed] = [inf |-> FALSE, v |-> 0]
    /\ lim_result.limits_dict[maxUsed].inf = TRUE


\* ------------------------------------------------------------------------
\* Properties of novaclient(request)
\* ------------------------------------------------------------------------
\* C9: for any sequence of facade calls with the same request context,
\* novaclient(request) returns the identical client every time; the client is
\* constructed, and the log entry written, at most once per context, and not
\* before the first use.
C9_OneHandlePerContext ==
    \A r \in Requests :
        /\ Cardinality(nc_returned[r]) <= 1
        /\ Len(clients) = Len(nc_log)
        /\ Len(clients) <= Cardinality({ q \in Requests : nc_calls[q] > 0 })
        /\ nc_calls[r] = 0 => (nc_cache[r] = NoClient /\ nc_returned[r] = {})
        /\ (nc_cache[r] # NoClient /\ nc_returned[r] # {}) => nc_returned[r] = {nc_cache[r]}

\* one context has made three calls and got one handle
C9_Witness ==
    \E r \in Requests :
        /\ nc_calls[r] = 3
        /\ nc_pc[r] = "idle"
        /\ Cardinality(nc_returned[r]) = 1
        /\ Len(clients) = 1

\* C10: for any interleaving of calls made with two distinct request
\* contexts, no handle is returned for both, and the cached handle of a
\* context is written once and not replaced while the context lives.
C10_NoSharingWriteOnce ==
    [][ /\ \A r, q \in Requests : r # q => nc_returned'[r] \cap nc_returned'[q] = {}
        /\ \A r, q \in Requests :
              (r # q /\ nc_cache'[r] # NoClient) => nc_cache'[r] # nc_cache'[q]
        /\ \A r \in Requests :
              (nc_cache[r] # NoClient /\ req_state'[r] = "live") => nc_cache'[r] = nc_cache[r] ]_vars

\* two live contexts are inside novaclient at once, each past its own cache
\* miss and holding a client of its own
C10_Witness ==
    /\ req_state[1] = "live" /\ req_state[2] = "live"
    /\ nc_pc[1] = "built" /\ nc_pc[2] = "built"
    /\ nc_local[1] = 2
    /\ nc_local[2] = 1
    /\ clients[1].username # clients[2].username


HasCredentialsOf(c, user) ==
    /\ c.username = user.username
    /\ c.api_key = user.token_id
    /\ c.project_id = user.tenant_id
    /\ c.auth_url = user.compute_url
    /\ c.auth_token = user.token_id
    /\ c.management_url = user.compute_url

\* C14: the client novaclient(request) returns carries the credentials of
\* that request: username, token id, tenant id, auth URL, auth_token and
\* management_url are those of the request it was called with, for any
\* sequence of calls with any mix of request contexts.
C14_CredentialsOfRequest ==
    \A r \in Requests :
        /\ \A h \in nc_returned[r] : HasCredentialsOf(clients[h], req_user[r])
        /\ nc_cache[r] # NoClient => HasCredentialsOf(clients[nc_cache[r]], req_user[r])
        /\ nc_local[r] # NoClient => HasCredentialsOf(clients[nc_local[r]], req_user[r])

\* two contexts of different users have each been handed a client
C14_Witness ==
    /\ req_user[1].username = "alice"
    /\ req_user[2].username = "bob"
    /\ nc_returned[1] # {}
    /\ nc_returned[2] # {}
    /\ nc_calls[1] >= 2
    /\ \A h \in nc_returned[2] : clients[h].auth_token = "token-b"

\* ------------------------------------------------------------------------
\* Properties of evacuate_host
\* ------------------------------------------------------------------------
\* uuids of the servers of all hypervisors the search returned
ServersOfHost ==
    UNION { { ev_hypervisors[h].servers[i].uuid : i \in 1..Len(ev_hypervisors[h].servers) } :
            h \in 1..Len(ev_hypervisors) }

AttemptedUuids == { ev_attempts[i].uuid : i \in 1..Len(ev_attempts) }

FailedUuids == { ev_attempts[i].uuid : i \in { j \in 1..Len(ev_attempts) : ~ ev_attempts[j].ok } }

\* the (name, uuid) pairs a message lists
PairsListed(msg) ==
    { <<msg[i + 1], msg[i + 3]>> : i \in { j \in 1..Len(msg) : msg[j] = "Name: " } }

NameOfUuid(uuid) == ServerNameTable[CHOOSE i \in 1..Len(ServerUuidTable) : ServerUuidTable[i] = uuid]

EvacuateRaised == ev_pc = "raised" /\ ev_result.raised.fresh

CallsMade == Len(fo_calls)

\* C12: every facade operation issues exactly one call to a client-library
\* method per invocation, flavor_create, flavor_extra_set, associate,
\* disassociate, aggregate_details_list and instance_volumes_list included.
C12_ExactlyOneCall ==
    fo_pc = "returned" => CallsMade = 1

\* C12 as amended: the plainly delegating operations (server_delete,
\* server_get, server_create, keypair_list) issue exactly one client-library
\* call per invocation; flavor_create issues one call without metadata and
\* three with it, flavor_extra_set one without metadata and two with it,
\* associate and disassociate three each, aggregate_details_list and
\* instance_volumes_list one call plus one per aggregate or volume listed.
C12_CallsPerOperation ==
    fo_pc = "returned" =>
        /\ fo_op \in SingleCallOperations => CallsMade = 1
        /\ fo_op = "flavor_create" => CallsMade = (IF fo_arg.metadata THEN 3 ELSE 1)
        /\ fo_op = "flavor_extra_set" => CallsMade = (IF fo_arg.metadata THEN 2 ELSE 1)
        /\ fo_op \in {"FloatingIpManager.associate", "FloatingIpManager.disassociate"} =>
              CallsMade = 3
        /\ fo_op \in {"aggregate_details_list", "instance_volumes_list"} =>
              CallsMade = 1 + fo_arg.items
        /\ CallsMade >= 1
        /\ \A i \in 1..CallsMade : fo_calls[i].ok

\* flavor_extra_set returned after one call, the metadata being empty
C12_Witness ==
    /\ fo_pc = "returned"
    /\ fo_op = "flavor_extra_set"
    /\ ~ fo_arg.metadata
    /\ fo_calls = <<[call |-> "flavors.get", ok |-> TRUE]>>

\* C13: in every facade operation other than update_instance_security_group
\* and evacuate_host an error raised by a client-library call reaches the
\* caller as that same error, and the failed call is made exactly once: no
\* call is repeated after it failed.
C13_ErrorsPropagateNoRetry ==
    /\ \A i \in 1..CallsMade : ~ fo_calls[i].ok => i = CallsMade
    /\ (CallsMade > 0 /\ ~ fo_calls[CallsMade].ok) =>
          /\ fo_pc = "raised"
          /\ fo_result.raised.fresh = FALSE
          /\ fo_result.raised.kind = fo_err.kind
          /\ fo_result.raised.code = fo_err.code
          /\ fo_result.raised.msg = <<fo_err.text>>
          /\ fo_result.returned = FALSE
    /\ fo_pc = "raised" => (CallsMade > 0 /\ ~ fo_calls[CallsMade].ok)

\* the third call of associate failed with a ClientException after two calls
\* had succeeded
C13_Witness ==
    /\ fo_pc = "raised"
    /\ fo_op = "FloatingIpManager.associate"
    /\ CallsMade = 3
    /\ fo_calls[3] = [call |-> "servers.add_floating_ip", ok |-> FALSE]
    /\ fo_err.kind = "ClientException"
    /\ fo_result.raised.kind = "ClientException"


\* ------------------------------------------------------------------------
\* Properties of the form field registration
\* ------------------------------------------------------------------------
\* the direct and indirect base classes of a defined class
RECURSIVE Ancestors(_)
Ancestors(cls) ==
    IF cls \notin DOMAIN class_bases THEN {}
    ELSE class_bases[cls] \cup UNION { Ancestors(b) : b \in class_bases[cls] }

LeafFieldClasses ==
    {"CheckBoxFormFieldRegion", "ChooseFileFormFieldRegion", "TextInputFormFieldRegion",
     "PasswordInputFormFieldRegion", "TextAreaFormFieldRegion", "IntegerFormFieldRegion",
     "SelectFormFieldRegion"}

ModuleLoaded == statements_run = Len(FieldClassStatements) /\ DOMAIN class_bases \cap ExtraClasses = {}

\* C15: after any sequence of form-field class definitions FORM_FIELDS_TYPES
\* contains no class that is a base class of another registered class; after
\* the module is loaded it holds exactly the seven leaf field classes and
\* neither BaseFormFieldRegion nor BaseTextFormFieldRegion.
C15_OnlyLeafClassesRegistered ==
    /\ \A c \in DOMAIN class_bases : FORM_FIELDS_TYPES \cap Ancestors(c) = {}
    /\ FORM_FIELDS_TYPES \subseteq DOMAIN class_bases
    /\ \A c \in DOMAIN class_bases :
          (\A d \in DOMAIN class_bases : c \notin class_bases[d]) => c \in FORM_FIELDS_TYPES
    /\ ModuleLoaded =>
          /\ FORM_FIELDS_TYPES = LeafFieldClasses
          /\ "BaseFormFieldRegion" \notin FORM_FIELDS_TYPES
          /\ "BaseTextFormFieldRegion" \notin FORM_FIELDS_TYPES

\* the module is loaded and a class was then derived from two of its leaf
\* classes, which left the set
C15_Witness ==
    /\ statements_run = Len(FieldClassStatements)
    /\ "ExtraFieldRegion1" \in DOMAIN class_bases
    /\ class_bases["ExtraFieldRegion1"] = {"TextInputFormFieldRegion", "SelectFormFieldRegion"}
    /\ FORM_FIELDS_TYPES =
          (LeafFieldClasses \ {"TextInputFormFieldRegion", "SelectFormFieldRegion"})
              \cup {"ExtraFieldRegion1"}


\* ------------------------------------------------------------------------
\* Properties of the REST server-create endpoint
\* ------------------------------------------------------------------------
LacksRequiredParameter(body) ==
    \E k \in {"name", "source_id", "flavor_id", "key_name", "user_data", "security_groups"} :
        k \notin DOMAIN body

\* C16: a REST server-create request whose body lacks a required parameter
\* is answered with status 400 and a message naming the missing parameter
\* (the first one missing in argument order), and server_create is never
\* called for that request; a request with every required parameter is
\* answered after exactly one server_create call.
C16_MissingParameterRejected ==
    /\ (rest_pc # "idle" /\ LacksRequiredParameter(rest_body)) => rest_calls = <<>>
    /\ (rest_pc = "responded" /\ LacksRequiredParameter(rest_body)) =>
          /\ rest_response.status = StatusBadRequest
          /\ \E k \in {"name", "source_id", "flavor_id", "key_name", "user_data",
                       "security_groups"} \ DOMAIN rest_body :
                rest_response.content = <<"missing required parameter '", k, "'">>
    /\ (rest_pc = "responded" /\ ~LacksRequiredParameter(rest_body)) =>
          /\ Len(rest_calls) = 1
          /\ rest_response.status = StatusCreated

\* the request of the test: only "name" is given, source_id is reported
C16_Witness ==
    /\ rest_pc = "responded"
    /\ DOMAIN rest_body = {"name"}
    /\ rest_response.status = StatusBadRequest
    /\ rest_response.content = <<"missing required parameter '", "source_id", "'">>
    /\ rest_calls = <<>>


\* ------------------------------------------------------------------------
\* Properties of flavor_create
\* ------------------------------------------------------------------------
FlavorCallNames == { fl_calls[i].call : i \in DOMAIN fl_calls }

MetadataNonEmpty == ~ fl_metadata.is_none /\ fl_metadata.dict # <<>>

\* the flavors nova holds now and did not hold when flavor_create was called
CreatedFlavors == DOMAIN remote_flavors \ fl_before

FlavorCreated == \E i \in DOMAIN fl_calls : fl_calls[i].call = "flavors.create" /\ fl_calls[i].ok

\* C21: flavor_create calls flavors.create first and sets extra specs
\* afterwards if and only if the metadata argument is non-empty; it returns
\* the created flavor, and when setting the extra specs fails the flavor has
\* already been created and is not deleted.
C21_CreateThenExtraSpecs ==
    /\ fl_calls # <<>> => fl_calls[1].call = "flavors.create"
    /\ \A i \in DOMAIN fl_calls :
          i > 1 => /\ fl_calls[i].call \in {"flavors.get", "flavor.set_keys"}
                   /\ fl_calls[1].ok
                   /\ MetadataNonEmpty
    /\ fl_pc = "returned" =>
          /\ "flavor.set_keys" \in FlavorCallNames <=> MetadataNonEmpty
          /\ CreatedFlavors = {fl_result.returned}
          /\ remote_flavors[fl_result.returned] =
                (IF MetadataNonEmpty THEN fl_metadata.dict ELSE EmptyDict)
    /\ (fl_pc = "raised" /\ Len(fl_calls) > 1) =>
          /\ FlavorCreated
          /\ CreatedFlavors = {fl_flavor}
          /\ "flavors.delete" \notin FlavorCallNames
    /\ (fl_pc = "raised" /\ Len(fl_calls) = 1) => CreatedFlavors = {}

\* set_keys failed after flavors.create and flavors.get: the new flavor is in
\* nova without extra specs
C21_Witness ==
    /\ fl_pc = "raised"
    /\ Len(fl_calls) = 3
    /\ fl_calls[3] = [call |-> "flavor.set_keys", ok |-> FALSE]
    /\ fl_flavor \in DOMAIN remote_flavors
    /\ fl_flavor \notin fl_before
    /\ remote_flavors[fl_flavor] = EmptyDict
    /\ fl_result.raised # NoRaise


\* ------------------------------------------------------------------------
\* Properties of FieldFactory.make_form_field
\* ------------------------------------------------------------------------
\* the registered classes whose element locator matches in the source element
PresentTypes == { c \in FORM_FIELDS_TYPES : LocatorOf(c) \in mf_elem }

\* C23: make_form_field returns an instance of a registered field class whose
\* element locator is present in the source element, and raises
\* UnknownFormFieldTypeException if and only if no registered class's
\* locator is present; it never returns an instance of a class that is not
\* in FORM_FIELDS_TYPES.
C23_RegisteredPresentOrUnknown ==
    /\ mf_pc = "returned" =>
          /\ mf_result.returned \in FORM_FIELDS_TYPES
          /\ mf_result.returned \in PresentTypes
          /\ mf_result.raised = NoRaise
    /\ mf_pc = "raised" =>
          /\ mf_result.raised.kind = "UnknownFormFieldTypeException"
          /\ mf_result.returned = NoClass
          /\ PresentTypes = {}
    /\ (mf_pc \in {"returned", "raised"} /\ PresentTypes = {}) => mf_pc = "raised"

\* the text input is matched in the source element, but its class left the
\* registry when a class with its own locator was derived from it
C23_Witness ==
    /\ mf_pc = "raised"
    /\ mf_result.raised.kind = "UnknownFormFieldTypeException"
    /\ mf_elem = {"div > input[type=text]"}
    /\ "TextInputFormFieldRegion" \in DOMAIN class_bases \ FORM_FIELDS_TYPES


\* ------------------------------------------------------------------------
\* Properties of the form field reads
\* ------------------------------------------------------------------------
\* position of the first occurrence of an event in the log, 0 when absent
FirstAt(event) ==
    LET at == { i \in DOMAIN fr_log : fr_log[i] = event }
    IN  IF at = {} THEN 0 ELSE CHOOSE i \in at : \A j \in at : i <= j

Happened(event) == FirstAt(event) # 0

ReadOver == fr_pc \in {"returned", "raised"}

\* C22: _get_form_fields turns the implicit wait off before probing the field
\* elements and always turns it back on before returning or raising: after
\* any call, including one where make_form_field raises
\* UnknownFormFieldTypeException, the implicit wait is on.
C22_ImplicitWaitRestored ==
    /\ Happened("make_form_field") =>
          /\ Happened("turn_off_implicit_wait")
          /\ FirstAt("turn_off_implicit_wait") < FirstAt("make_form_field")
    /\ ReadOver =>
          /\ implicit_wait
          /\ Happened("turn_off_implicit_wait")
          /\ fr_log[IF fr_tab_index = NoTab \/ fr_pc = "raised"
                    THEN Len(fr_log) ELSE Len(fr_log) - 1] = "turn_on_implicit_wait"
    /\ fr_pc = "idle" => implicit_wait

\* make_form_field raised for the second element, the wait is on again
C22_Witness ==
    /\ fr_pc = "raised"
    /\ fr_result.raised.kind = "UnknownFormFieldTypeException"
    /\ Len(form_fields) = 1
    /\ Len(fields_els) = 2
    /\ implicit_wait

\* index of the tab whose tuple in form_field_names holds the name
TabOfName(name) ==
    CHOOSE t \in TabIndexes :
        \E j \in DOMAIN form_field_names[t + 1] : form_field_names[t + 1][j] = name

\* C24: every read of the fields of tab i first switches to tab i and only
\* then collects the form fields, and returns only the fields that are
\* displayed after the switch; fields of different tabs are bound to the
\* index of their own tab in form_field_names.
C24_SwitchThenCollectDisplayed ==
    fr_name # NoName =>
       /\ fr_tab_index = TabOfName(fr_name)
       /\ Happened("get_elements") =>
             /\ FirstAt("switch_to_tab") = 1
             /\ current_tab = fr_tab_index
       /\ fr_pc = "returned" =>
             /\ \A i \in DOMAIN fr_result.returned :
                   fr_result.returned[i].elem.tab = fr_tab_index
             /\ Len(fr_result.returned) =
                   Cardinality({ i \in DOMAIN form_fields :
                                    form_fields[i].elem.tab = fr_tab_index })
             /\ \A i \in DOMAIN fr_result.returned :
                   \E k \in DOMAIN form_fields : form_fields[k] = fr_result.returned[i]

\* a name of the second tab is read on a page with one field on each tab:
\* the page shows the second tab and only its field is returned
C24_Witness ==
    /\ fr_pc = "returned"
    /\ fr_name = "subnet_name"
    /\ fr_tab_index = 1
    /\ current_tab = 1
    /\ Len(form_fields) = 2
    /\ form_fields[1].elem.tab = 0
    /\ fr_result.returned = <<form_fields[2]>>


Init == InitSG /\ InitSL /\ InitLim /\ InitNC /\ InitEV /\ InitFO /\ InitForms /\ InitRest /\ InitFL /\ InitFF /\ InitFR

Next ==
    \/ update_instance_security_group
    \/ sg_list
    \/ sg_list_by_instance
    \/ sg_add
    \/ sg_remove
    \/ sg_return
    \/ sg_done

Spec == Init /\ [][Next]_vars

NextServerList ==
    \/ server_list
    \/ sl_done

InitServerList ==
    /\ server_groups = {} /\ SgLocalsIdle /\ InitSL /\ InitLim /\ InitNC /\ InitEV /\ InitFO
    /\ InitForms /\ InitRest /\ InitFL /\ InitFF /\ InitFR

SpecServerList == InitServerList /\ [][NextServerList]_vars

NextLimits ==
    \/ tenant_absolute_limits
    \/ lim_done

SpecLimits == InitServerList /\ [][NextLimits]_vars

NextNovaclient ==
    \/ \E r \in Requests : request_begin(r)
    \/ \E r \in Requests : novaclient_lookup(r)
    \/ \E r \in Requests : novaclient(r)
    \/ \E r \in Requests : novaclient_store(r)
    \/ \E r \in Requests : request_end(r)

SpecNovaclient == InitServerList /\ [][NextNovaclient]_vars

NextEvacuate ==
    \/ evacuate_host
    \/ ev_evacuate
    \/ ev_finish
    \/ ev_done

SpecEvacuate == InitServerList /\ [][NextEvacuate]_vars

NextFacade ==
    \/ facade_call
    \/ facade_client_call
    \/ facade_return
    \/ facade_done

SpecFacade == InitServerList /\ [][NextFacade]_vars

NextForms ==
    \/ class_statement
    \/ define_field_class

SpecForms == InitServerList /\ [][NextForms]_vars

NextRest ==
    \/ servers_post
    \/ servers_post_validate
    \/ servers_post_create
    \/ servers_post_done

SpecRest == InitServerList /\ [][NextRest]_vars

NextFlavor ==
    \/ flavor_create
    \/ fl_flavors_create
    \/ fl_flavors_get
    \/ fl_set_keys
    \/ fl_return
    \/ fl_done

SpecFlavor == InitServerList /\ [][NextFlavor]_vars

NextFieldFactory ==
    \/ class_statement
    \/ define_field_subclass
    \/ make_form_field
    \/ mf_probe
    \/ mf_unknown
    \/ mf_done

SpecFieldFactory == InitServerList /\ [][NextFieldFactory]_vars

NextFormRegion ==
    \/ class_statement
    \/ form_fields_read
    \/ tabbed_fields_read
    \/ fr_switch_to_tab
    \/ fr_get_elements
    \/ fr_turn_off_implicit_wait
    \/ fr_make_form_field
    \/ fr_finally
    \/ fr_displayed
    \/ fr_done

SpecFormRegion == InitServerList /\ [][NextFormRegion]_vars

====
